---- MODULE Spec2Model ----
(***************************************************************************)
(* Model of the rate-limited fetcher of mcp_server_api_sports:             *)
(*   RateLimiter.acquire and ApiSportsService.make_request                 *)
(*   (services/api_sports_service.py).                                     *)
(*                                                                         *)
(* Time.  Every comparison the limiter makes is between `now - t` and a    *)
(* window, so a recorded instant t is kept as its age now - t, which grows *)
(* as time advances and saturates at the day window (an instant that old   *)
(* is purged from both lists by the next check).  A sleeping task keeps    *)
(* the remaining part of its sleep in timer[t].                            *)
(*                                                                         *)
(* Scheduling.  asyncio is cooperative: the code between two awaits runs   *)
(* without interleaving, so each action is one such stretch.               *)
(*                                                                         *)
(* The second part models CacheService (services/cache_service.py) and the *)
(* cached fixtures query ApiSportsService.search_fixtures, under their own *)
(* specification CacheSpec.  A cache entry keeps expires_at - now, the     *)
(* time it has left, or is marked permanent (expires_at = inf).            *)
(***************************************************************************)
EXTENDS Integers, Sequences, FiniteSets, TLC

\* ---------------------------------------------------------------- bounds
NumTasks == 3
MaxCallsPerMinute == 2
MaxCallsPerDay == 2
MaxRetriesCfg == 3
MaxSize == 2            \* largest configured cache_max_size
MaxGets == 2            \* cache lookups counted in hits + misses
MaxEvictions == 1       \* evictions counted
NumCallers == 2         \* concurrent callers of search_teams
MaxFetches == 2         \* upstream requests made for search_teams
MaxClients == 2         \* HTTP clients constructed

\* ------------------------------------------------------ program constants
MinuteWindow == 60
DayWindow == 86400
BackoffFactor == 2
DefaultRetryAfter == 60
AdvisedRetryAfter == 1

Tasks == 1..NumTasks
NoTask == 0

VARIABLES
    calls_per_minute,   \* RateLimiter.calls_per_minute
    calls_per_day,      \* RateLimiter.calls_per_day
    max_retries,        \* settings.rate_limit_max_retries
    minute_calls,       \* RateLimiter.minute_calls, as ages, oldest first
    day_calls,          \* RateLimiter.day_calls, as ages, oldest first
    lock_owner,         \* the task holding RateLimiter.lock, or NoTask
    lock_waiters,       \* the tasks queued on RateLimiter.lock, first come first
    pc,                 \* where each task is
    op,                 \* what each task was asked to do
    timer,              \* the rest of each task's asyncio.sleep
    attempt,            \* make_request: the loop variable `attempt`
    response,           \* make_request: the upstream's last answer
    sleeps,             \* make_request: the sleeps it asked for so far
    gets,               \* make_request: upstream GETs issued
    recorded,           \* limiter calls recorded for each task
    suspended,          \* whether the task's acquire() slept for budget
    outcome,            \* how each task's operation ended
    cache_enabled,      \* CacheService.enabled
    max_size,           \* CacheService.max_size
    cache,              \* CacheService.cache, least recently used first
    hits,               \* CacheService.hits
    misses,             \* CacheService.misses
    evictions,          \* CacheService.evictions
    last,               \* the latest cache operation and what it returned
    recency,            \* the stored keys by their last successful get or set
    search,             \* the search_fixtures call in progress or just ended
    remaining,          \* what the latest get_remaining() returned
    teams,              \* each caller's search_teams call
    acquired,           \* rate-limiter calls made for search_teams
    requested,          \* upstream requests made for search_teams
    client,             \* ApiSportsService.client, or NoClient
    created,            \* httpx.AsyncClient objects constructed so far
    handed,             \* what _get_client() last returned to each task
    closing,            \* the tasks inside close(), awaiting aclose()
    closes,             \* close() calls that found a client to close
    server,             \* the server's run: phase, cleanup task, sweeps
    formatted,          \* each caller's statistics or standings call
    fetched             \* upstream requests made for statistics and standings

limiter_vars == <<minute_calls, day_calls, lock_owner, lock_waiters>>
config_vars == <<calls_per_minute, calls_per_day, max_retries>>
request_vars == <<attempt, response, sleeps, gets, outcome>>
fetcher_vars == <<calls_per_minute, calls_per_day, max_retries, minute_calls, day_calls,
                  lock_owner, lock_waiters, pc, op, timer, attempt, response, sleeps,
                  gets, recorded, suspended, outcome>>
counter_vars == <<hits, misses, evictions>>
cache_vars_but_search == <<cache_enabled, max_size, cache, hits, misses, evictions,
                           last, recency>>
cache_vars == <<cache_enabled, max_size, cache, hits, misses, evictions, last, recency,
                search>>
teams_vars == <<teams, acquired, requested>>
client_vars == <<client, created, handed, closing, closes>>
formatted_vars == <<formatted, fetched>>
extra_vars == <<remaining, teams, acquired, requested, client, created, handed, closing,
                closes, server, formatted, fetched>>
vars == <<calls_per_minute, calls_per_day, max_retries, minute_calls, day_calls,
          lock_owner, lock_waiters, pc, op, timer, attempt, response, sleeps, gets,
          recorded, suspended, outcome,
          cache_enabled, max_size, cache, hits, misses, evictions, last, recency,
          search, remaining, teams, acquired, requested, client, created, handed,
          closing, closes, server, formatted, fetched>>

\* ---------------------------------------------------------------- helpers
Min(a, b) == IF a < b THEN a ELSE b
Max(a, b) == IF a > b THEN a ELSE b

RECURSIVE Pow(_, _)
Pow(b, e) == IF e = 0 THEN 1 ELSE b * Pow(b, e - 1)

\* the instants outside the window kept instead
PurgeYounger(calls, window) == SelectSeq(calls, LAMBDA age : age >= window)

\* [t for t in calls if t > now - window]
Purge(calls, window) == SelectSeq(calls, LAMBDA age : age < window)

\* the number of recorded instants younger than the window
InWindow(calls, window) == Cardinality({i \in 1..Len(calls) : calls[i] < window})

\* ------------------------------------------------------- upstream answers
\* One answer of the upstream to a GET: an HTTP response (status, the shape of
\* its body, the Retry-After header or 0 when absent) or a network failure.
Http(status, body, retry_after) ==
    [kind |-> "http", status |-> status, body |-> body, retry_after |-> retry_after]
NetworkFailure == [kind |-> "request_error", status |-> 0, body |-> "none", retry_after |-> 0]
NoResponse == [kind |-> "none", status |-> 0, body |-> "none", retry_after |-> 0]

Responses ==
    { Http(200, "ok", 0),              \* errors == []
      Http(200, "errors", 0),          \* errors populated with text
      Http(200, "blank_errors", 0),    \* errors non-empty, every value empty
      Http(200, "invalid", 0),         \* body does not fit ApiResponse
      Http(429, "none", AdvisedRetryAfter),
      Http(429, "none", 0),
      Http(500, "message", 0),
      Http(404, "message", 0),
      NetworkFailure }

NoOutcome == [result |-> "none", status |-> 0, text |-> "none", at |-> 0]
Raised(result, status, text, at) ==
    [result |-> result, status |-> status, text |-> text, at |-> at]

\* ------------------------------------------------------------ cache data
\* Values a caller stores, and the absent result of a lookup (None).
Values == {"v1", "v2"}
None == "None"

\* a time to live of 0 taken as a deadline reached at once
CacheEntryExpiring(key, value, ttl) ==
    [key |-> key, value |-> value, permanent |-> FALSE, left |-> ttl]

\* An entry of CacheService.cache: CacheEntry(value, ttl) under its key.
\*   expires_at = time.time() + ttl if ttl > 0 else float('inf')
CacheEntry(key, value, ttl) ==
    [key |-> key, value |-> value, permanent |-> ~(ttl > 0),
     left |-> IF ttl > 0 THEN ttl ELSE 0]

\* What the latest cache operation was given and what it returned.
Operated(o, prefix, params, pattern, value, result, count) ==
    [op |-> o, prefix |-> prefix, params |-> params, pattern |-> pattern,
     value |-> value, result |-> result, count |-> count, cache_type |-> "none"]
NoOperation == Operated("none", "none", <<>>, <<>>, None, None, 0)

\* A search_fixtures call: where it is, what it was given, how many upstream
\* requests it has made, how it ended, and the status codes of the fixtures
\* the upstream returned to it.
\* The arguments of a search_fixtures call; no call yet.
Query(league, season, live, count, date, team) ==
    [league |-> league, season |-> season, live |-> live, last |-> count, date |-> date,
     team |-> team]
NoQuery == Query(None, None, "", 0, "", None)

Searching(at, live, valid, params, upstream, result) ==
    [pc |-> at, live |-> live, valid |-> valid, params |-> params,
     upstream |-> upstream, result |-> result, statuses |-> <<>>, query |-> NoQuery]
NoSearch == Searching("idle", "", TRUE, <<>>, 0, "none")

\* CacheService.__init__
CacheConstructed ==
    /\ cache = <<>>
    /\ hits = 0
    /\ misses = 0
    /\ evictions = 0
    /\ last = NoOperation
    /\ recency = <<>>
    /\ search = NoSearch

\* ------------------------------------------------- the rest of the service
Callers == 1..NumCallers

\* get_remaining() not called yet
NoRemaining == [minute |-> 0 - 1, day |-> 0 - 1]

\* A search_teams call: where it is, the params it built, what it returned
\* (a result, the error dict, or nothing because an exception left it).
TeamsCall(at, params, result) == [pc |-> at, params |-> params, result |-> result]
NoTeamsCall == TeamsCall("idle", <<>>, "none")

\* A get_team_statistics_formatted or get_standings_formatted call: where it
\* is, its arguments, what it returned (a result, "invalid" for the date
\* error dict, "not_found" for the 'No ... found' error dict, "error" for the
\* 'Failed to retrieve' error dict, "raised" when an exception left it), and
\* whether the caller's previous call had the same arguments and returned one
\* of the last two error dicts.
FormattedInput(operation, league, season, team, date) ==
    [operation |-> operation, league |-> league, season |-> season, team |-> team,
     date |-> date]
NoFormattedInput == FormattedInput("none", None, None, None, "")
FormattedCall(at, input, result, again) ==
    [pc |-> at, input |-> input, result |-> result, again |-> again]
NoFormattedCall == FormattedCall("idle", NoFormattedInput, "none", FALSE)

\* self.client = None
NoClient == 0

\* The server: where run() is, why it left the serving loop, the rest of the
\* cleanup task's sleep, whether the task was cancelled, and the time since
\* the task started or last swept.  Before run(): no cleanup task.
SweepInterval == 300
Serving(phase, cause, wait, cancelled, since) ==
    [phase |-> phase, cause |-> cause, timer |-> wait, cancelled |-> cancelled,
     since |-> since]
NoServer == Serving("created", "none", 0, FALSE, 0)

\* ApiSportsService.__init__ and the server before it runs
ServiceConstructed ==
    /\ remaining = NoRemaining
    /\ teams = [c \in Callers |-> NoTeamsCall]
    /\ acquired = 0
    /\ requested = 0
    /\ client = NoClient
    /\ created = 0
    /\ handed = [t \in Tasks |-> NoClient]
    /\ closing = {}
    /\ closes = 0
    /\ server = NoServer
    /\ formatted = [c \in Callers |-> NoFormattedCall]
    /\ fetched = 0

\* ------------------------------------------------------------------- Init
Init ==
    /\ calls_per_minute \in 1..MaxCallsPerMinute
    /\ calls_per_day \in 1..MaxCallsPerDay
    /\ max_retries \in 1..MaxRetriesCfg
    /\ minute_calls = <<>>
    /\ day_calls = <<>>
    /\ lock_owner = NoTask
    /\ lock_waiters = <<>>
    /\ pc = [t \in Tasks |-> "idle"]
    /\ op = [t \in Tasks |-> "none"]
    /\ timer = [t \in Tasks |-> 0]
    /\ attempt = [t \in Tasks |-> 0]
    /\ response = [t \in Tasks |-> NoResponse]
    /\ sleeps = [t \in Tasks |-> <<>>]
    /\ gets = [t \in Tasks |-> 0]
    /\ recorded = [t \in Tasks |-> 0]
    /\ suspended = [t \in Tasks |-> FALSE]
    /\ outcome = [t \in Tasks |-> NoOutcome]
    /\ cache_enabled = TRUE
    /\ max_size = MaxSize
    /\ CacheConstructed
    /\ ServiceConstructed

\* ------------------------------------------------------------ RateLimiter
\* asyncio.Lock.acquire returns at once only when the lock is free and nobody
\* is queued on it; otherwise the caller queues.
\* the lock taken without looking at it
LockAlwaysAvailable == TRUE

LockAvailable == lock_owner = NoTask /\ lock_waiters = <<>>

\* the minute check off by one
MinuteBudgetExceeded(mc) == Len(mc) > calls_per_minute

\* if len(self.minute_calls) >= self.calls_per_minute
MinuteBudgetExhausted(mc) == Len(mc) >= calls_per_minute

\* if len(self.day_calls) >= self.calls_per_day
DayBudgetExhausted(dc) == Len(dc) >= calls_per_day

\* What the caller of acquire() does when acquire() returns, up to its next
\* await: a bare acquire() is finished; make_request takes the shared client
\* (no suspension), enters its loop (max_retries >= 1) and issues the first
\* GET.
AfterAcquire(t, o) ==
    IF o = "acquire"
    THEN /\ pc' = [pc EXCEPT ![t] = "done"]
         /\ outcome' = [outcome EXCEPT ![t] = Raised("returned", 0, "none", 0)]
         /\ UNCHANGED <<attempt, response, sleeps, gets>>
    ELSE /\ pc' = [pc EXCEPT ![t] = "awaiting"]
         /\ gets' = [gets EXCEPT ![t] = @ + 1]
         /\ UNCHANGED <<attempt, response, sleeps, outcome>>

\* The body of `async with self.lock` in acquire(), run by task t once it has
\* the lock: purge, check the minute budget, check the day budget, record.
\* A budget sleep happens inside the `async with`, so the lock stays held.
AcquireBody(t, o) ==
    LET mc == Purge(minute_calls, MinuteWindow)
        dc == Purge(day_calls, DayWindow)
    IN  IF MinuteBudgetExhausted(mc)
        THEN /\ minute_calls' = mc
             /\ day_calls' = dc
             /\ lock_owner' = t
             /\ timer' = [timer EXCEPT ![t] = MinuteWindow - mc[1]]
             /\ pc' = [pc EXCEPT ![t] = "minute_sleep"]
             /\ suspended' = [suspended EXCEPT ![t] = TRUE]
             /\ UNCHANGED <<recorded, request_vars>>
        ELSE IF DayBudgetExhausted(dc)
        THEN /\ minute_calls' = mc
             /\ day_calls' = dc
             /\ lock_owner' = t
             /\ timer' = [timer EXCEPT ![t] = DayWindow - dc[1]]
             /\ pc' = [pc EXCEPT ![t] = "day_sleep"]
             /\ suspended' = [suspended EXCEPT ![t] = TRUE]
             /\ UNCHANGED <<recorded, request_vars>>
        ELSE /\ minute_calls' = Append(mc, 0)
             /\ day_calls' = Append(dc, 0)
             /\ lock_owner' = NoTask
             /\ recorded' = [recorded EXCEPT ![t] = @ + 1]
             /\ AfterAcquire(t, o)
             /\ UNCHANGED <<timer, suspended>>

\* `async with self.lock`: take the lock and run the body, or queue on it.
EnterAcquire(t, o) ==
    IF LockAvailable
    THEN /\ AcquireBody(t, o)
         /\ UNCHANGED lock_waiters
    ELSE /\ lock_waiters' = Append(lock_waiters, t)
         /\ pc' = [pc EXCEPT ![t] = "lock_wait"]
         /\ UNCHANGED <<minute_calls, day_calls, lock_owner, timer, recorded,
                        suspended, request_vars>>

\* The tasks of Requesters call make_request(); every other task calls
\* acquire() directly.  Those other tasks are interchangeable, so they make
\* their calls in the order of their numbers.
Requesters == {1}
Operation(t) == IF t \in Requesters THEN "request" ELSE "acquire"
Turn(t) == t \in Requesters \/ \A u \in Tasks \ Requesters : u < t => pc[u] # "idle"

\* A task calls rate_limiter.acquire() directly, or make_request(), whose
\* first statement is `await self.rate_limiter.acquire()`.
Call(t, o) ==
    /\ pc[t] = "idle"
    /\ Turn(t)
    /\ o = Operation(t)
    /\ op' = [op EXCEPT ![t] = o]
    /\ EnterAcquire(t, o)
    /\ UNCHANGED <<config_vars, cache_vars, extra_vars>>

\* The event loop resumes a task suspended inside acquire().  A task queued on
\* the lock resumes when the lock has been released and it is the first in the
\* queue: it takes the lock and runs the body.  A task in a budget sleep
\* resumes when the sleep is over, at `return await self.acquire()`: a nested
\* call made from inside the `async with` of the suspended call, so with the
\* lock still held by t itself.
AcquireResume(t) ==
    /\ pc[t] \in {"lock_wait", "minute_sleep", "day_sleep"}
    /\ IF pc[t] = "lock_wait"
       THEN /\ lock_owner = NoTask
            /\ lock_waiters # <<>>
            /\ Head(lock_waiters) = t
            /\ lock_waiters' = Tail(lock_waiters)
            /\ AcquireBody(t, op[t])
       ELSE /\ timer[t] = 0
            /\ EnterAcquire(t, op[t])
    /\ UNCHANGED <<op, config_vars, cache_vars, extra_vars>>

\* ----------------------------------------------------------- make_request
\* the last attempt taken to be one later
LastAttemptLate(a) == a = max_retries

\* attempt == max_retries - 1
LastAttempt(a) == a = max_retries - 1

\* the exponent off by one
BackoffSleepNextPower(a) == Pow(BackoffFactor, a + 1)

\* sleep_time = backoff_factor ** attempt
BackoffSleep(a) == Pow(BackoffFactor, a)

\* the advised delay ignored
RetryAfterDefault(r) == DefaultRetryAfter

\* retry_after = int(response.headers.get("Retry-After", 60))
RetryAfter(r) == IF r.retry_after = 0 THEN DefaultRetryAfter ELSE r.retry_after

\* the 5xx branch taken on the last attempt too
ServerErrorRetryAlways(r, a) == r.status >= 500

\* if response.status_code >= 500 and attempt < max_retries - 1
ServerErrorRetry(r, a) == r.status >= 500 /\ a < max_retries - 1

Sleep(secs, why) == [do |-> "sleep", secs |-> secs, why |-> why, outcome |-> NoOutcome]
Finish(o) == [do |-> "finish", secs |-> 0, why |-> "none", outcome |-> o]

\* An exception caught by a handler that re-raises on the last attempt only
\* (HTTPStatusError, RequestError, Exception): otherwise control leaves the
\* try statement and reaches the backoff sleep that ends the loop body.
RaiseOnLast(o, a) ==
    IF LastAttempt(a) THEN Finish(o) ELSE Sleep(BackoffSleep(a), "backoff")

\* What one iteration of the loop does with the upstream's answer r on
\* attempt a, up to its next await or to the end of make_request.
Handle(r, a) ==
    IF r.kind = "request_error"
    THEN RaiseOnLast(Raised("request_error", 0, "none", a), a)
    ELSE IF r.status = 429
    THEN Sleep(RetryAfter(r), "rate_limited")
    ELSE IF ServerErrorRetry(r, a)
    THEN Sleep(BackoffSleep(a), "server_error")
    ELSE IF r.status \notin {200, 429}
    THEN RaiseOnLast(Raised("status_error", r.status, r.body, a), a)
    ELSE IF r.body = "invalid"
    THEN Finish(Raised("validation_error", r.status, r.body, a))
    ELSE IF r.body = "errors"
    THEN RaiseOnLast(Raised("api_error", r.status, r.body, a), a)
    ELSE Finish(Raised("ok", r.status, r.body, a))

\* The upstream's answer to the pending GET arrives.
Response(t, r) ==
    /\ pc[t] = "awaiting"
    /\ response' = [response EXCEPT ![t] = r]
    /\ LET h == Handle(r, attempt[t])
       IN  IF h.do = "sleep"
           THEN /\ timer' = [timer EXCEPT ![t] = h.secs]
                /\ sleeps' = [sleeps EXCEPT ![t] = Append(@, [secs |-> h.secs, why |-> h.why])]
                /\ pc' = [pc EXCEPT ![t] = "retry_sleep"]
                /\ UNCHANGED outcome
           ELSE /\ outcome' = [outcome EXCEPT ![t] = h.outcome]
                /\ pc' = [pc EXCEPT ![t] = "done"]
                /\ UNCHANGED <<timer, sleeps>>
    /\ UNCHANGED <<limiter_vars, op, attempt, gets, recorded, suspended, config_vars, cache_vars, extra_vars>>

\* A sleep of the loop is over (the 429 wait and the server-error backoff
\* `continue`, the backoff after a caught exception ends the body): the loop
\* takes its next value of `attempt` and issues the next GET, or has no value
\* left and make_request raises "Failed to make request after N attempts".
RetryWake(t) ==
    /\ pc[t] = "retry_sleep"
    /\ timer[t] = 0
    /\ IF attempt[t] + 1 < max_retries
       THEN /\ attempt' = [attempt EXCEPT ![t] = @ + 1]
            /\ gets' = [gets EXCEPT ![t] = @ + 1]
            /\ pc' = [pc EXCEPT ![t] = "awaiting"]
            /\ UNCHANGED outcome
       ELSE /\ outcome' = [outcome EXCEPT ![t] = Raised("exhausted", 0, "none", attempt[t])]
            /\ pc' = [pc EXCEPT ![t] = "done"]
            /\ UNCHANGED <<attempt, gets>>
    /\ UNCHANGED <<limiter_vars, op, timer, response, sleeps, recorded, suspended, config_vars, cache_vars, extra_vars>>

\* ------------------------------------------------------------------- time
Aged(calls, d) == [i \in 1..Len(calls) |-> Min(calls[i] + d, DayWindow)]

\* Time passes to the end of some pending sleep, or by a whole day.
AdvanceChoices == {DayWindow} \cup {timer[t] : t \in {u \in Tasks : timer[u] > 0}}

Advance(d) ==
    /\ d \in AdvanceChoices
    /\ minute_calls' = Aged(minute_calls, d)
    /\ day_calls' = Aged(day_calls, d)
    /\ timer' = [t \in Tasks |-> Max(timer[t] - d, 0)]
    /\ UNCHANGED <<lock_owner, lock_waiters, pc, op, recorded, suspended,
                   request_vars, config_vars, cache_vars, extra_vars>>

TaskStep(t) ==
    \/ Call(t, Operation(t))
    \/ AcquireResume(t)
    \/ \E r \in Responses : Response(t, r)
    \/ RetryWake(t)

Next ==
    \/ \E t \in Tasks : TaskStep(t)
    \/ \E d \in AdvanceChoices : Advance(d)

Spec == Init /\ [][Next]_vars

\* asyncio runs every task that is ready, the upstream answers every GET
\* (with a response or, at the 30 s timeout, a RequestError), and time passes.
Fairness ==
    /\ \A t \in Tasks : WF_vars(TaskStep(t))
    /\ WF_vars(\E d \in AdvanceChoices : Advance(d))

FairSpec == Init /\ [][Next]_vars /\ Fairness

\* ---------------------------------------------------------- get_remaining
\* the remaining capacity short by one
RemainingLessOne(ceiling, used) == Max(0, ceiling - used - 1)

\* max(0, self.calls_per_minute - len(minute_calls))
RemainingOf(ceiling, used) == Max(0, ceiling - used)

\* the filtered list assigned to the limiter
KeptPurged(calls, window) == Purge(calls, window)

\* minute_calls = [t for t in self.minute_calls if t > minute_ago] binds a
\* local name: the limiter's own list stays as it is.
Kept(calls, window) == calls

\* get_remaining(): a plain method, without the lock and without an await.
GetRemaining ==
    /\ remaining' = [minute |-> RemainingOf(calls_per_minute,
                                            InWindow(minute_calls, MinuteWindow)),
                     day |-> RemainingOf(calls_per_day, InWindow(day_calls, DayWindow))]
    /\ minute_calls' = Kept(minute_calls, MinuteWindow)
    /\ day_calls' = Kept(day_calls, DayWindow)
    /\ UNCHANGED <<lock_owner, lock_waiters, pc, op, timer, recorded, suspended,
                   request_vars, config_vars, cache_vars, teams_vars, formatted_vars, client_vars,
                   server>>

\* The limiter with its callers and an observer that reads the remaining
\* capacity at any moment.
LimiterNext ==
    \/ \E t \in Tasks : Call(t, Operation(t))
    \/ \E t \in Tasks : AcquireResume(t)
    \/ \E d \in AdvanceChoices : Advance(d)
    \/ GetRemaining

LimiterSpec == Init /\ [][LimiterNext]_vars

\* ==================================================================== claims
BudgetSleeps == {"minute_sleep", "day_sleep"}
InAcquire(t) == pc[t] \in {"lock_wait", "minute_sleep", "day_sleep"}

\* C1 (as claimed): with a minute ceiling of N and a day ceiling above N, a
\* call suspends for the minute budget only when N calls are recorded, it
\* sleeps until the oldest of them is 60 s old, and once that sleep is over
\* and the budget re-checked it has returned with its own call recorded.
C1_BoundaryThenReturn ==
    calls_per_day > calls_per_minute =>
        \A t \in Tasks :
            /\ pc[t] = "minute_sleep" =>
                 /\ Len(minute_calls) >= calls_per_minute
                 /\ timer[t] = Max(MinuteWindow - minute_calls[1], 0)
            /\ (suspended[t] /\ pc[t] \notin BudgetSleeps) => recorded[t] = 1

\* C2 (as claimed): every call of acquire() eventually returns, whether it
\* took the lock, queued on it, or waits for the minute or the day budget.
C2_AcquireReturns ==
    \A t \in Tasks : InAcquire(t) ~> (~InAcquire(t) /\ recorded[t] = 1)

\* C3: in every reachable state, so in particular right after any acquire()
\* returns, at most calls_per_minute recorded instants are younger than 60 s
\* and at most calls_per_day are younger than 86400 s.
C3_WindowCeilings ==
    /\ InWindow(minute_calls, MinuteWindow) <= calls_per_minute
    /\ InWindow(day_calls, DayWindow) <= calls_per_day

\* C3 witness: both tasks have returned from acquire() and the minute window
\* is full with their two calls.
C3_Witness ==
    /\ calls_per_minute = 2
    /\ \A t \in {1, 2} : recorded[t] = 1
    /\ InWindow(minute_calls, MinuteWindow) = 2

\* C4: at most one task is inside the purge / check / suspend / record
\* sequence (a task suspended inside it holds the lock), and while a task is
\* suspended for budget no call is purged, checked or recorded: the lists
\* only age and no task's recorded count changes.
C4_CriticalSection ==
    /\ [](\A t \in Tasks : pc[t] \in BudgetSleeps => lock_owner = t)
    /\ [](Cardinality({t \in Tasks : pc[t] \in BudgetSleeps}) <= 1)
    /\ [][(\E t \in Tasks : pc[t] \in BudgetSleeps) =>
            /\ recorded' = recorded
            /\ Len(minute_calls') = Len(minute_calls)
            /\ Len(day_calls') = Len(day_calls)]_vars

\* C4 witness: one task is suspended for budget inside the critical section
\* while another is queued on the lock.
C4_Witness ==
    \E t, u \in Tasks :
        /\ pc[t] \in BudgetSleeps
        /\ pc[u] = "lock_wait"
        /\ u # t
        /\ lock_waiters = <<u>>

\* ------------------------------------------------------------ make_request
Last(q) == q[Len(q)]
Made(t) == op[t] = "request"
CountWhy(t, why) == Cardinality({i \in 1..Len(sleeps[t]) : sleeps[t][i].why = why})

\* C5 (as claimed): every upstream GET of make_request, retries included, is
\* preceded by its own acquire(): a request has recorded as many limiter
\* calls as it has issued GETs.
C5_AcquirePerAttempt ==
    \A t \in Tasks : Made(t) => recorded[t] = gets[t]

\* C6 (as claimed): a 429 is always retried and leaves the attempt index
\* alone: when the wait that follows a 429 is over, the request issues its
\* next GET with the same attempt index.
C6_RateLimitedUncounted ==
    [][\A t \in Tasks :
          (/\ pc[t] = "retry_sleep"
           /\ Last(sleeps[t]).why = "rate_limited"
           /\ pc'[t] # "retry_sleep") =>
              /\ pc'[t] = "awaiting"
              /\ gets'[t] = gets[t] + 1
              /\ attempt'[t] = attempt[t]]_vars

\* C7 (as claimed): a status that is neither 200, 429 nor 5xx ends the request
\* at once, with an error carrying the status and the upstream's message, no
\* sleep and no further GET.
C7_HardFailureOnStatus ==
    \A t \in Tasks :
        response[t].status = 404 =>
            /\ pc[t] = "done"
            /\ outcome[t].result = "status_error"
            /\ outcome[t].status = 404
            /\ outcome[t].text = "message"

\* C8 (as claimed): a 200 whose errors field is populated ends the request at
\* once with the application error, whatever max_retries is.
C8_HardFailureOnApiError ==
    \A t \in Tasks :
        response[t].body = "errors" =>
            /\ pc[t] = "done"
            /\ outcome[t].result = "api_error"

\* C9: a 5xx with attempts remaining is followed by a sleep of
\* backoff_factor^attempt seconds and a retry that advances the attempt index;
\* a 5xx ends the request only on the last attempt; and with max_retries = 3
\* the answers 5xx, 5xx, 200 give sleeps of 1 then 2 and the 200 payload on
\* the third GET.
C9_ServerErrorRetry ==
    \A t \in Tasks :
        /\ (pc[t] = "retry_sleep" /\ response[t].status >= 500) =>
              /\ attempt[t] < max_retries - 1
              /\ Len(sleeps[t]) = attempt[t] + 1
              /\ Last(sleeps[t]) = [secs |-> Pow(2, attempt[t]), why |-> "server_error"]
        /\ (pc[t] = "done" /\ response[t].status >= 500) => attempt[t] = max_retries - 1
        /\ (pc[t] = "awaiting" /\ Len(sleeps[t]) > 0) =>
              /\ attempt[t] = Len(sleeps[t])
              /\ gets[t] = attempt[t] + 1
        /\ (/\ max_retries = 3
            /\ CountWhy(t, "server_error") = 2
            /\ Len(sleeps[t]) = 2
            /\ response[t] = Http(200, "ok", 0)) =>
              /\ sleeps[t][1].secs = 1
              /\ sleeps[t][2].secs = 2
              /\ gets[t] = 3
              /\ pc[t] = "done"
              /\ outcome[t] = Raised("ok", 200, "ok", 2)

\* C9 witness: max_retries = 3 and the upstream answered 5xx, 5xx, 200.
C9_Witness ==
    \E t \in Tasks :
        /\ max_retries = 3
        /\ CountWhy(t, "server_error") = 2
        /\ Len(sleeps[t]) = 2
        /\ response[t] = Http(200, "ok", 0)
        /\ outcome[t].result = "ok"

\* C10: a network failure with attempts remaining is followed by a sleep of
\* backoff_factor^attempt seconds and a retry; on the last attempt it is
\* raised as it is, so when every attempt fails this way max_retries GETs were
\* made and the error raised is the last attempt's.
C10_NetworkFailureRetry ==
    \A t \in Tasks :
        response[t].kind = "request_error" =>
            /\ pc[t] = "retry_sleep" =>
                 /\ attempt[t] < max_retries - 1
                 /\ Last(sleeps[t]) = [secs |-> Pow(2, attempt[t]), why |-> "backoff"]
            /\ pc[t] = "done" =>
                 /\ outcome[t] = Raised("request_error", 0, "none", max_retries - 1)
                 /\ attempt[t] = max_retries - 1
            /\ (pc[t] = "done" /\ CountWhy(t, "backoff") = Len(sleeps[t])) =>
                 /\ gets[t] = max_retries
                 /\ Len(sleeps[t]) = max_retries - 1

\* C10 witness: max_retries = 3, every attempt failed at the network level
\* and the request has ended.
C10_Witness ==
    \E t \in Tasks :
        /\ max_retries = 3
        /\ response[t].kind = "request_error"
        /\ pc[t] = "done"
        /\ gets[t] = 3
        /\ [i \in 1..2 |-> sleeps[t][i].secs] = <<1, 2>>
        /\ CountWhy(t, "backoff") = 2

\* C11 (as claimed): a 200 body that does not validate as the response
\* envelope is a retryable fault, so while attempts remain the request has
\* not failed on it: it backs off and tries again.
C11_ValidationFailureRetried ==
    \A t \in Tasks :
        (Made(t) /\ response[t].body = "invalid" /\ attempt[t] < max_retries - 1) =>
            pc[t] # "done"

CacheTtlTeams == 86400
CacheTtlFixturesCompleted == 0
CacheTtlFixturesUpcoming == 3600
CacheTtlStatistics == 3600
CacheTtlStandings == 1800
CacheTtlPredictions == 3600
CacheTtlDefault == 3600

\* ttl_map.get(cache_type, 3600)
GetTtl(cache_type) ==
    CASE cache_type = "teams" -> CacheTtlTeams
      [] cache_type = "fixtures_completed" -> CacheTtlFixturesCompleted
      [] cache_type = "fixtures_upcoming" -> CacheTtlFixturesUpcoming
      [] cache_type = "statistics" -> CacheTtlStatistics
      [] cache_type = "standings" -> CacheTtlStandings
      [] cache_type = "predictions" -> CacheTtlPredictions
      [] OTHER -> CacheTtlDefault

\* The categories the model stores under: one that expires and one that
\* never does.
CacheTypes == {"fixtures_upcoming", "fixtures_completed"}

\* ------------------------------------------------------------------- keys
\* A parameter dict is the sequence of its (name, value) pairs in insertion
\* order.
League39 == <<"league", "39">>
Season2023 == <<"season", "2023">>
Season2024 == <<"season", "2024">>
ParamSets == { <<League39, Season2023>>, <<Season2023, League39>>,
               <<League39, Season2024>> }
KeyInputs ==
    {[prefix |-> "teams", params |-> ps] : ps \in ParamSets}
        \cup {[prefix |-> "fixtures", params |-> <<League39, Season2023>>]}

\* json.dumps(params, sort_keys=True) writes the pairs in the order of their
\* names; the text is kept as that sequence of pairs.
NameOrder == <<"league", "live", "next", "season", "team">>
Rank(name) == CHOOSE i \in 1..Len(NameOrder) : NameOrder[i] = name

RECURSIVE InsertPair(_, _)
InsertPair(sorted, pair) ==
    IF sorted = <<>> THEN <<pair>>
    ELSE IF Rank(pair[1]) < Rank(Head(sorted)[1]) THEN <<pair>> \o sorted
    ELSE <<Head(sorted)>> \o InsertPair(Tail(sorted), pair)

RECURSIVE SortKeys(_)
SortKeys(params) ==
    IF params = <<>> THEN <<>>
    ELSE InsertPair(SortKeys(Tail(params)), Head(params))

\* the pairs written in insertion order
DumpsUnsorted(params) == params

Dumps(params) == SortKeys(params)

\* hashlib.md5(text).hexdigest(): a function of the text, with a different
\* digest for each different text (no collision among the texts that occur).
LiveAll == <<"live", "all">>
Team33 == <<"team", "33">>
Next10 == <<"next", "10">>
Texts == << <<League39, Season2023>>, <<League39, Season2024>>,
            <<Season2023, League39>>, <<League39, LiveAll, Season2023>>,
            <<LiveAll, League39, Season2023>>,
            <<Season2023, Team33>>, <<League39, Season2023, Team33>>,
            <<Next10, Team33>> >>
HexDigests == <<"d1", "d2", "d3", "d4", "d5", "d6", "d7", "d8">>
Md5(text) == HexDigests[CHOOSE i \in 1..Len(Texts) : Texts[i] = text]

\* f"{prefix}:{hash_digest}", as the sequence of its parts
GenerateKey(prefix, params) == <<prefix, ":", Md5(Dumps(params))>>

\* `pattern in key`: the pattern occurs in the key as a contiguous part
Contains(key, pattern) ==
    \E i \in 1..(Len(key) - Len(pattern) + 1) :
        SubSeq(key, i, i + Len(pattern) - 1) = pattern

\* invalidate(pattern=None), and the patterns the model invalidates by
NonePattern == <<"None">>
Patterns == {NonePattern, <<"teams", ":">>, <<"fixtures", ":">>, <<"d2">>}

\* ---------------------------------------------------------------- entries
\* the deadline itself counted as expired
IsExpiredAtDeadline(e) == ~e.permanent /\ e.left <= 0

\* no entry ever expired
IsExpiredNever(e) == FALSE

\* CacheEntry.is_expired: time.time() > self.expires_at
IsExpired(e) == ~e.permanent /\ e.left < 0

Keys(c) == {c[i].key : i \in 1..Len(c)}

\* the entry of the key left where it is
WithoutNothing(c, key) == c

\* the cache without the entry of the key (del self.cache[key])
Without(c, key) == SelectSeq(c, LAMBDA e : e.key # key)

\* self.cache[key]
Lookup(c, key) == c[CHOOSE i \in 1..Len(c) : c[i].key = key]

\* -------------------------------------------------------------- get / set
\* The record of use: the keys still stored, with the key just read or
\* written, if any, moved to the end.
Surviving(r, c) == SelectSeq(r, LAMBDA k : k \in {c[i].key : i \in 1..Len(c)})
Used(r, c, key) == Append(SelectSeq(Surviving(r, c), LAMBDA k : k # key), key)

\* The body of CacheService.get under the lock: the cache it leaves, the
\* value it returns and the counter it adds to.
GetOutcome(c, key) ==
    IF key \in Keys(c)
    THEN LET entry == Lookup(c, key)
         IN  IF IsExpired(entry)
             THEN [cache |-> Without(c, key), result |-> None, hit |-> 0, miss |-> 1]
             ELSE [cache |-> Append(Without(c, key), entry),
                   result |-> entry.value, hit |-> 1, miss |-> 0]
    ELSE [cache |-> c, result |-> None, hit |-> 0, miss |-> 1]

\* the size test off by one
SizeLimitExceeded(c) == Len(c) > max_size

\* while len(self.cache) >= self.max_size
SizeLimitReached(c) == Len(c) >= max_size

\* the most recently used entry evicted
RECURSIVE EvictNewest(_)
EvictNewest(c) == IF SizeLimitReached(c) THEN EvictNewest(SubSeq(c, 1, Len(c) - 1)) ELSE c

\* oldest_key = next(iter(self.cache)); del self.cache[oldest_key]
RECURSIVE EvictOldest(_)
EvictOldest(c) == IF SizeLimitReached(c) THEN EvictOldest(Tail(c)) ELSE c

\* The body of CacheService.set under the lock.
SetOutcome(c, key, value, cache_type) ==
    LET room == EvictOldest(Without(c, key))
    IN  [cache |-> Append(room, CacheEntry(key, value, GetTtl(cache_type))),
         evicted |-> Len(Without(c, key)) - Len(room)]

\* await self.get(key), for a caller that made the key from prefix and params
CacheGetByKey(key, prefix, params) ==
    LET got == GetOutcome(cache, key)
    IN  /\ IF cache_enabled
           THEN /\ hits + misses < MaxGets
                /\ cache' = got.cache
                /\ hits' = hits + got.hit
                /\ misses' = misses + got.miss
                /\ last' = Operated("get", prefix, params, <<>>, None, got.result, 0)
                /\ recency' = IF got.hit = 1
                              THEN Used(recency, got.cache, key)
                              ELSE Surviving(recency, got.cache)
           ELSE /\ last' = Operated("get", prefix, params, <<>>, None, None, 0)
                /\ UNCHANGED <<cache, hits, misses, recency>>
        /\ UNCHANGED <<cache_enabled, max_size, evictions>>

\* await self.get(key) with key = self._generate_key(prefix, params)
CacheGet(prefix, params) == CacheGetByKey(GenerateKey(prefix, params), prefix, params)

\* await self.set(key, value, cache_type), for a caller that made the key
\* from prefix and params
CacheSetByKey(key, prefix, params, value, cache_type) ==
    LET put == SetOutcome(cache, key, value, cache_type)
    IN  /\ IF cache_enabled
           THEN /\ evictions + put.evicted <= MaxEvictions
                /\ cache' = put.cache
                /\ evictions' = evictions + put.evicted
                /\ recency' = Used(recency, put.cache, key)
           ELSE UNCHANGED <<cache, evictions, recency>>
        /\ last' = [Operated("set", prefix, params, <<>>, value, None, 0)
                       EXCEPT !.cache_type = cache_type]
        /\ UNCHANGED <<cache_enabled, max_size, hits, misses>>

\* await self.set(key, value, cache_type) with the generated key
CacheSet(prefix, params, value, cache_type) ==
    CacheSetByKey(GenerateKey(prefix, params), prefix, params, value, cache_type)

Get(i) ==
    /\ CacheGet(i.prefix, i.params)
    /\ UNCHANGED <<fetcher_vars, extra_vars, search>>

Set(i, value, cache_type) ==
    /\ CacheSet(i.prefix, i.params, value, cache_type)
    /\ UNCHANGED <<fetcher_vars, extra_vars, search>>

\* the key of a fixtures entry made to depend on its category
FixturesPrefixByCategory(is_completed) ==
    IF is_completed THEN "fixtures_completed" ELSE "fixtures"

\* key = self._generate_key("fixtures", params)
FixturesPrefix(is_completed) == "fixtures"

\* cache_type = "fixtures_completed" if is_completed else "fixtures_upcoming"
FixturesCacheType(is_completed) ==
    IF is_completed THEN "fixtures_completed" ELSE "fixtures_upcoming"

\* set_fixtures(params, value, is_completed)
SetFixtures(params, value, is_completed) ==
    /\ CacheSet(FixturesPrefix(is_completed), params, value, FixturesCacheType(is_completed))
    /\ UNCHANGED <<fetcher_vars, extra_vars, search>>

\* ------------------------------------------------ invalidate / cleanup
\* `pattern in key` of invalidate, anchored at the start of the key
MatchesAtStart(key, pattern) ==
    \/ pattern = NonePattern
    \/ Len(pattern) <= Len(key) /\ SubSeq(key, 1, Len(pattern)) = pattern

\* keys_to_remove = [key for key in self.cache if pattern in key]; a call
\* without a pattern clears the cache.
Matches(key, pattern) == pattern = NonePattern \/ Contains(key, pattern)

Invalidate(pattern) ==
    LET kept == SelectSeq(cache, LAMBDA e : ~Matches(e.key, pattern))
    IN  /\ IF cache_enabled
           THEN /\ cache' = kept
                /\ recency' = Surviving(recency, kept)
                /\ last' = Operated("invalidate", "none", <<>>, pattern, None, None,
                                    Len(cache) - Len(kept))
           ELSE /\ last' = Operated("invalidate", "none", <<>>, pattern, None, None, 0)
                /\ UNCHANGED <<cache, recency>>
        /\ UNCHANGED <<fetcher_vars, extra_vars, cache_enabled, max_size, counter_vars, search>>

CleanupExpired ==
    LET kept == SelectSeq(cache, LAMBDA e : ~IsExpired(e))
    IN  /\ IF cache_enabled
           THEN /\ cache' = kept
                /\ recency' = Surviving(recency, kept)
                /\ last' = Operated("cleanup_expired", "none", <<>>, <<>>, None, None,
                                    Len(cache) - Len(kept))
           ELSE /\ last' = Operated("cleanup_expired", "none", <<>>, <<>>, None, None, 0)
                /\ UNCHANGED <<cache, recency>>
        /\ UNCHANGED <<fetcher_vars, extra_vars, cache_enabled, max_size, counter_vars, search>>

\* ------------------------------------------------------------ cache time
\* Time passes up to the deadline of some entry, just past it, or past every
\* deadline.
Deadlines == {cache[i].left : i \in {j \in 1..Len(cache) :
                                        ~cache[j].permanent /\ cache[j].left > 0}}
TickChoices == Deadlines \cup {d + 1 : d \in Deadlines} \cup {CacheTtlTeams + 1}

Tick(d) ==
    /\ d \in TickChoices
    /\ \E i \in 1..Len(cache) : ~cache[i].permanent /\ cache[i].left >= 0
    /\ cache' = [i \in 1..Len(cache) |->
                    IF cache[i].permanent THEN cache[i]
                    ELSE [cache[i] EXCEPT !.left = Max(@ - d, 0 - 1)]]
    /\ last' = Operated("time", "none", <<>>, <<>>, None, None, 0)
    /\ UNCHANGED <<fetcher_vars, extra_vars, cache_enabled, max_size, counter_vars, recency, search>>

\* -------------------------------------------------------- search_fixtures
\* The calls the model makes: fixtures of league 39, with or without the
\* season, live or not, without a count (0) or with a count of 100, without
\* a date or with a date written day first; and fixtures of team 33, with
\* or without the league and the season.
MaxCount == 99
ValidDates == {"2024-01-15"}
SearchInputs ==
    {Query("39", se, lv, n, dt, None) :
        se \in {None, "2023"}, lv \in {"", "all"}, n \in {0, 100}, dt \in {"", "15/01/2024"}}
    \cup {Query(lg, se, "", 0, "", "33") : lg \in {None, "39"}, se \in {None, "2023"}}

\* datetime.strptime(date, "%Y-%m-%d") returns
DateParses(date) == date \in ValidDates

\* the count let through whatever it is
ParametersValidButCount(q) ==
    /\ ~(q.league # None /\ q.season = None)
    /\ ~(q.team # None /\ q.season = None)
    /\ ~(q.date # "" /\ ~DateParses(q.date))

\* a team let through without its season
ParametersValidButTeam(q) ==
    /\ ~(q.league # None /\ q.season = None)
    /\ ~(q.last # 0 /\ q.last > MaxCount)
    /\ ~(q.date # "" /\ ~DateParses(q.date))

\* The checks before the try statement: league without season, team without
\* season, last > 99, a date that does not parse; each returns
\* {"error": ..., "request_id": ...}.
ParametersValid(q) ==
    /\ ~(q.league # None /\ q.season = None)
    /\ ~(q.team # None /\ q.season = None)
    /\ ~(q.last # 0 /\ q.last > MaxCount)
    /\ ~(q.date # "" /\ ~DateParses(q.date))

\* params, in the order search_fixtures fills the dict (of a call without a
\* date and without a count)
\* if (season is None and not date and not from_date and not last and not
\* next and not id and not ids and not live), under `if team is not None`
TeamOnly(q) ==
    q.team # None /\ q.season = None /\ q.date = "" /\ q.last = 0 /\ q.live = ""

BuildParams(q) ==
    (IF q.live # "" THEN << <<"live", q.live>> >> ELSE <<>>)
        \o (IF q.league # None THEN << <<"league", q.league>> >> ELSE <<>>)
        \o (IF q.season # None THEN << <<"season", q.season>> >> ELSE <<>>)
        \o (IF q.team # None THEN << <<"team", q.team>> >> ELSE <<>>)
        \o (IF TeamOnly(q) THEN << <<"next", "10">> >> ELSE <<>>)

\* What self.get_fixtures(...) gives back: it raises, or it answers with no
\* fixture, with fixtures that are all completed, or with some that are not.
Raises == [raised |-> TRUE, fixtures |-> "empty", statuses |-> <<>>]
Answers(fixtures, statuses) ==
    [raised |-> FALSE, fixtures |-> fixtures, statuses |-> statuses]
UpstreamAnswers ==
    {Raises, Answers("empty", <<>>), Answers("v1", <<"FT", "AWD">>),
     Answers("v2", <<"FT", "NS">>), Answers("v3", <<"1H">>)}

\* completed_statuses
CompletedStatuses == {"FT", "AET", "PEN", "PST", "CANC", "ABD", "AWD", "WO"}

\* one completed fixture taken as enough
AnyCompleted(statuses) ==
    \E i \in 1..Len(statuses) : statuses[i] \in CompletedStatuses

\* all(f["status"]["short"] in completed_statuses for f in fixtures_data)
AllCompleted(statuses) ==
    \A i \in 1..Len(statuses) : statuses[i] \in CompletedStatuses

\* the cache consulted for live queries as for any other
ReadsCacheAlways(live) == TRUE

\* if not live and self.cache_service
ReadsCache(live) == live = ""

\* a result without fixtures stored like any other
WritesCacheEmptyToo(live, fixtures) == live = ""

\* if not live and fixtures_data and self.cache_service
WritesCache(live, fixtures) == live = "" /\ fixtures # "empty"

\* search_fixtures up to its first await that leaves the service: parameter
\* validation, the cache lookup, and the upstream request being issued.
SearchFixtures(q) ==
    /\ search.pc \in {"idle", "returned"}
    /\ IF ~ParametersValid(q)
       THEN /\ search' = [Searching("returned", q.live, FALSE, <<>>, 0, "error")
                              EXCEPT !.query = q]
            /\ UNCHANGED cache_vars_but_search
       ELSE IF ReadsCache(q.live)
       THEN /\ CacheGet("fixtures", BuildParams(q))
            /\ search' = [(IF last'.result # None
                           THEN Searching("returned", q.live, TRUE, BuildParams(q), 0, "cached")
                           ELSE Searching("fetching", q.live, TRUE, BuildParams(q), 1, "none"))
                              EXCEPT !.query = q]
       ELSE /\ search' = [Searching("fetching", q.live, TRUE, BuildParams(q), 1, "none")
                              EXCEPT !.query = q]
            /\ UNCHANGED cache_vars_but_search
    /\ UNCHANGED <<fetcher_vars, extra_vars>>

\* The upstream request of search_fixtures ends: the result is built, stored
\* unless the query is live or found nothing, and returned; an exception
\* becomes an error result.
SearchAnswer(a) ==
    /\ search.pc = "fetching"
    /\ a \in UpstreamAnswers
    /\ IF a.raised
       THEN /\ search' = [search EXCEPT !.pc = "returned", !.result = "error"]
            /\ UNCHANGED cache_vars_but_search
       ELSE /\ search' = [search EXCEPT !.pc = "returned", !.result = "fetched",
                                        !.statuses = a.statuses]
            /\ IF WritesCache(search.live, a.fixtures)
               THEN CacheSet("fixtures", search.params, a.fixtures,
                             IF AllCompleted(a.statuses) THEN "fixtures_completed"
                                                ELSE "fixtures_upcoming")
               ELSE UNCHANGED cache_vars_but_search
    /\ UNCHANGED <<fetcher_vars, extra_vars>>

\* ------------------------------------------------------ cache specification
\* CacheService() under a configuration with cache_max_size >= 1, before any
\* operation; the fetcher stays as constructed.
\* RateLimiter and ApiSportsService as constructed and left alone.
FetcherIdle ==
    /\ calls_per_minute = MaxCallsPerMinute
    /\ calls_per_day = MaxCallsPerDay
    /\ max_retries = MaxRetriesCfg
    /\ minute_calls = <<>>
    /\ day_calls = <<>>
    /\ lock_owner = NoTask
    /\ lock_waiters = <<>>
    /\ pc = [t \in Tasks |-> "idle"]
    /\ op = [t \in Tasks |-> "none"]
    /\ timer = [t \in Tasks |-> 0]
    /\ attempt = [t \in Tasks |-> 0]
    /\ response = [t \in Tasks |-> NoResponse]
    /\ sleeps = [t \in Tasks |-> <<>>]
    /\ gets = [t \in Tasks |-> 0]
    /\ recorded = [t \in Tasks |-> 0]
    /\ suspended = [t \in Tasks |-> FALSE]
    /\ outcome = [t \in Tasks |-> NoOutcome]

CacheInit ==
    /\ cache_enabled \in BOOLEAN
    /\ max_size \in 1..MaxSize
    /\ CacheConstructed
    /\ FetcherIdle
    /\ ServiceConstructed

FixturesInputs == {i \in KeyInputs : i.prefix = "fixtures"}

CacheNext ==
    \/ \E i \in KeyInputs : Get(i)
    \/ \E i \in KeyInputs \ FixturesInputs, value \in Values, cache_type \in CacheTypes :
           Set(i, value, cache_type)
    \/ \E i \in FixturesInputs, value \in Values, is_completed \in BOOLEAN :
           SetFixtures(i.params, value, is_completed)
    \/ \E pattern \in Patterns : Invalidate(pattern)
    \/ CleanupExpired
    \/ \E d \in TickChoices : Tick(d)

CacheSpec == CacheInit /\ [][CacheNext]_vars

\* ----------------------------------------------------- search specification
\* search_fixtures calls over a cache that other callers read, clear and
\* sweep, while time passes.
SearchNext ==
    \/ \E q \in SearchInputs : SearchFixtures(q)
    \/ \E a \in UpstreamAnswers : SearchAnswer(a)
    \/ \E i \in FixturesInputs : Get(i)
    \/ Invalidate(NonePattern)
    \/ CleanupExpired
    \/ \E d \in TickChoices : Tick(d)

SearchSpec == CacheInit /\ [][SearchNext]_vars

\* ------------------------------------------------------------ search_teams
\* The calls the model makes: teams of league 39 in a season, without a search
\* string (length 0) or with one of two characters.
MinSearchLength == 3
TeamsInputs ==
    {[league |-> "39", season |-> se, search |-> n] : se \in {"2023", "2024"}, n \in {0, 2}}

\* if search and len(search) < 3: return {"error": ...}
TeamsSearchValid(q) == ~(q.search > 0 /\ q.search < MinSearchLength)

\* params, in the order search_teams fills the dict (of a call without a
\* search string)
BuildTeamsParams(q) == << <<"league", q.league>>, <<"season", q.season>> >>

\* every result taken for a cached one
TruthyAlways(result) == TRUE

\* if cached_result: a result dict is never empty, None is falsy
Truthy(result) == result # None

\* logger.error(f"...{e}", extra={...}): called with keyword arguments, the
\* logger applies str.format to the message, the text of the exception in it.
\* A text without braces is logged; a replacement field in it ("{...}") makes
\* str.format raise KeyError, whose text is the quoted field name; a single
\* brace makes it raise ValueError, whose text quotes the brace.
FailureTexts == {"plain", "field", "brace"}
FormatRaises(text) == text \in {"field", "brace"}
FormatErrorText(text) == IF text = "brace" THEN "brace" ELSE "plain"

\* The text of the exception in flight after the handler has logged it.
AfterLogging(text) == IF FormatRaises(text) THEN FormatErrorText(text) ELSE text

\* What self.get_teams(...) gives back: a response, or an exception with a
\* text; make_request has logged it in its own handler before it leaves.
TeamsFails(text) == [raised |-> TRUE, value |-> None, text |-> AfterLogging(text)]
TeamsFound(value) == [raised |-> FALSE, value |-> value, text |-> "plain"]
TeamsAnswers == {TeamsFails(text) : text \in FailureTexts} \cup {TeamsFound(v) : v \in Values}

\* except Exception as e: logger.error(...); return {"error": ...}: the dict
\* is returned if the logger call returns.
TeamsHandled(text) == IF FormatRaises(text) THEN "raised" ELSE "error"

\* search_teams up to the upstream request: validation, the cache read, and
\* on a miss make_request's acquire() and GET.
SearchTeams(c, q) ==
    /\ teams[c].pc # "fetching"
    /\ IF ~TeamsSearchValid(q)
       THEN /\ teams' = [teams EXCEPT ![c] = TeamsCall("done", <<>>, "error")]
            /\ UNCHANGED <<acquired, requested, cache_vars>>
       ELSE /\ CacheGet("teams", BuildTeamsParams(q))
            /\ IF Truthy(last'.result)
               THEN /\ teams' = [teams EXCEPT ![c] =
                                    TeamsCall("done", BuildTeamsParams(q), last'.result)]
                    /\ UNCHANGED <<acquired, requested>>
               ELSE /\ requested < MaxFetches
                    /\ teams' = [teams EXCEPT ![c] =
                                    TeamsCall("fetching", BuildTeamsParams(q), "none")]
                    /\ acquired' = acquired + 1
                    /\ requested' = requested + 1
            /\ UNCHANGED search
    /\ UNCHANGED <<fetcher_vars, remaining, formatted_vars, client_vars, server>>

\* search_teams from the answer of the upstream on: the result is built and
\* stored, or the exception is handled.
TeamsAnswer(c, a) ==
    /\ teams[c].pc = "fetching"
    /\ IF a.raised
       THEN /\ teams' = [teams EXCEPT ![c] = TeamsCall("done", @.params, TeamsHandled(a.text))]
            /\ UNCHANGED cache_vars
       ELSE /\ CacheSet("teams", teams[c].params, a.value, "teams")
            /\ teams' = [teams EXCEPT ![c] = TeamsCall("done", @.params, a.value)]
            /\ UNCHANGED search
    /\ UNCHANGED <<acquired, requested, fetcher_vars, remaining, formatted_vars, client_vars,
                   server>>

TeamsNext ==
    \/ \E c \in Callers, q \in TeamsInputs : SearchTeams(c, q)
    \/ \E c \in Callers, a \in TeamsAnswers : TeamsAnswer(c, a)
    \/ Invalidate(NonePattern)
    \/ \E d \in TickChoices : Tick(d)

TeamsSpec == CacheInit /\ [][TeamsNext]_vars

\* ------------------------------------------- statistics and standings
\* The calls the model makes: the statistics of team 33 in league 39 in
\* 2023, without a date or with a date written day first; the standings of
\* league 39 in 2023, of all teams or of team 33.
FormattedInputs ==
    {FormattedInput("statistics", "39", "2023", "33", dt) : dt \in {"", "15/01/2024"}}
    \cup {FormattedInput("standings", "39", "2023", tm, "") : tm \in {None, "33"}}

\* get_team_statistics_formatted: if date: strptime(date, "%Y-%m-%d"), else
\* the error dict; get_standings_formatted takes no date.
FormattedValid(i) == ~(i.operation = "statistics" /\ i.date # "" /\ ~DateParses(i.date))

\* params of get_team_statistics_formatted (of a call without a date), in
\* the order the dict is filled; get_standings_formatted builds none.
FormattedParams(i) ==
    IF i.operation = "statistics"
    THEN << <<"league", i.league>>, <<"season", i.season>>, <<"team", i.team>> >>
    ELSE <<>>

\* cache_key = f"standings:{league}:{season}:{team or 'all'}"
StandingsKey(i) ==
    <<"standings", ":", i.league, ":", i.season, ":",
      IF i.team = None THEN "all" ELSE i.team>>

\* get_statistics(params) makes the key from the params; the standings are
\* read and written under cache_key itself.
FormattedKey(i) ==
    IF i.operation = "statistics"
    THEN GenerateKey("statistics", FormattedParams(i))
    ELSE StandingsKey(i)

\* What the upstream's response list is: empty, one blank element ({}), or
\* one element with data.
Payloads == {"empty", "blank", "v1"}

\* no payload taken for an absent one
NotFoundNever(operation, payload) == FALSE

\* statistics: if not response.response; standings: if not response.response
\* or not response.response[0].  A blank element passes the first test, and
\* the statistics built from it are all defaults.
NotFound(operation, payload) ==
    \/ payload = "empty"
    \/ operation = "standings" /\ payload = "blank"

\* What the request gives back: a response, or an exception with a text that
\* make_request has logged before it leaves.
FormattedFails(text) == [raised |-> TRUE, value |-> None, text |-> AfterLogging(text)]
FormattedGets(payload) == [raised |-> FALSE, value |-> payload, text |-> "plain"]
FormattedAnswers ==
    {FormattedFails(text) : text \in FailureTexts} \cup {FormattedGets(p) : p \in Payloads}

\* except Exception as e: logger.error(f"...{str(e)}", extra=...); return
\* {"error": ...}: the dict is returned if the logger call returns.
FormattedHandled(text) == IF FormatRaises(text) THEN "raised" ELSE "error"

\* The error dicts of a call that contacted the upstream
FailureResults == {"error", "not_found"}

\* Either operation up to the upstream request: validation, the cache read,
\* and on a miss make_request's GET.
FormattedStart(c, i) ==
    /\ formatted[c].pc # "fetching"
    /\ IF ~FormattedValid(i)
       THEN /\ formatted' = [formatted EXCEPT ![c] = FormattedCall("done", i, "invalid", FALSE)]
            /\ UNCHANGED <<fetched, cache_vars>>
       ELSE /\ CacheGetByKey(FormattedKey(i), i.operation, FormattedParams(i))
            /\ IF Truthy(last'.result)
               THEN /\ formatted' = [formatted EXCEPT ![c] =
                                        FormattedCall("done", i, last'.result, FALSE)]
                    /\ UNCHANGED fetched
               ELSE /\ fetched < MaxFetches
                    /\ formatted' = [formatted EXCEPT ![c] =
                           FormattedCall("fetching", i, "none",
                                         /\ formatted[c].input = i
                                         /\ formatted[c].result \in FailureResults)]
                    /\ fetched' = fetched + 1
            /\ UNCHANGED search
    /\ UNCHANGED <<fetcher_vars, remaining, teams_vars, client_vars, server>>

\* Either operation from the answer of the upstream on: the result is built
\* and stored, or the error dict is returned, or the exception is handled.
FormattedAnswer(c, a) ==
    /\ formatted[c].pc = "fetching"
    /\ IF a.raised
       THEN /\ formatted' = [formatted EXCEPT ![c] =
                                FormattedCall("done", @.input, FormattedHandled(a.text), @.again)]
            /\ UNCHANGED cache_vars
       ELSE IF NotFound(formatted[c].input.operation, a.value)
       THEN /\ formatted' = [formatted EXCEPT ![c] =
                                FormattedCall("done", @.input, "not_found", @.again)]
            /\ UNCHANGED cache_vars
       ELSE /\ CacheSetByKey(FormattedKey(formatted[c].input), formatted[c].input.operation,
                             FormattedParams(formatted[c].input), a.value,
                             formatted[c].input.operation)
            /\ formatted' = [formatted EXCEPT ![c] =
                                FormattedCall("done", @.input, a.value, @.again)]
            /\ UNCHANGED search
    /\ UNCHANGED <<fetched, fetcher_vars, remaining, teams_vars, client_vars, server>>

\* Statistics and standings calls while time passes.
FormattedNext ==
    \/ \E c \in Callers, i \in FormattedInputs : FormattedStart(c, i)
    \/ \E c \in Callers, a \in FormattedAnswers : FormattedAnswer(c, a)
    \/ \E d \in TickChoices : Tick(d)

FormattedSpec == CacheInit /\ [][FormattedNext]_vars

\* ------------------------------------------------------------ HTTP client
\* the client taken to be missing whatever it is
ClientIsNoneAlways(c) == TRUE

\* if self.client is None
ClientIsNone(c) == c = NoClient

\* _get_client(): the test, `async with self._client_lock`, the second test
\* and the construction run without a suspension: the lock is only ever
\* held between two statements with no await, so it is free whenever a task
\* reaches it.  A client is named by its number of construction.
GetClient(t) ==
    /\ IF ClientIsNone(client)
       THEN /\ created < MaxClients
            /\ created' = created + 1
            /\ client' = created + 1
       ELSE UNCHANGED <<client, created>>
    /\ handed' = [handed EXCEPT ![t] = client']
    /\ UNCHANGED <<closing, closes, remaining, teams_vars, formatted_vars, server, fetcher_vars, cache_vars>>

\* close() up to `await self.client.aclose()`; without a client it returns.
CloseBegin(t) ==
    /\ t \notin closing
    /\ client # NoClient
    /\ closing' = closing \cup {t}
    /\ closes' = closes + 1
    /\ UNCHANGED <<client, created, handed, remaining, teams_vars, formatted_vars, server, fetcher_vars,
                   cache_vars>>

\* aclose() has returned: self.client = None
CloseEnd(t) ==
    /\ t \in closing
    /\ closing' = closing \ {t}
    /\ client' = NoClient
    /\ UNCHANGED <<created, handed, closes, remaining, teams_vars, formatted_vars, server, fetcher_vars,
                   cache_vars>>

\* The service as constructed, with the cache at its configured size.
ServiceInit ==
    /\ FetcherIdle
    /\ cache_enabled = TRUE
    /\ max_size = MaxSize
    /\ CacheConstructed
    /\ ServiceConstructed

ClientNext ==
    \/ \E t \in Tasks : GetClient(t)
    \/ \E t \in Tasks : CloseBegin(t)
    \/ \E t \in Tasks : CloseEnd(t)

ClientSpec == ServiceInit /\ [][ClientNext]_vars

\* ----------------------------------------------------------------- server
\* run(): the cleanup task is created and enters its first sleep; the server
\* serves requests.
ServerRun ==
    /\ server.phase = "created"
    /\ server' = Serving("serving", "none", SweepInterval, FALSE, 0)
    /\ UNCHANGED <<fetcher_vars, cache_vars, remaining, teams_vars, formatted_vars, client_vars>>

\* While the server runs, requests take the HTTP client and store results.
ServerRequest(i, value) ==
    /\ server.phase = "serving"
    /\ CacheSet(i.prefix, i.params, value, "fixtures_upcoming")
    /\ IF ClientIsNone(client)
       THEN /\ created < MaxClients
            /\ client' = created + 1
            /\ created' = created + 1
       ELSE UNCHANGED <<client, created>>
    /\ UNCHANGED <<fetcher_vars, search, remaining, teams_vars, formatted_vars, handed, closing, closes,
                   server>>

\* Time passes to the end of the cleanup task's sleep, or by as much again
\* when the task is gone; the cache entries age with it.
ServerElapse ==
    /\ server.phase \in {"serving", "closing"}
    /\ server.cancelled \/ server.timer > 0
    /\ LET d == IF server.cancelled THEN SweepInterval ELSE server.timer
       IN  /\ server' = [server EXCEPT !.timer = Max(@ - d, 0),
                                       !.since = Min(@ + d, 2 * SweepInterval)]
           /\ cache' = [i \in 1..Len(cache) |->
                           IF cache[i].permanent THEN cache[i]
                           ELSE [cache[i] EXCEPT !.left = Max(@ - d, 0 - 1)]]
    /\ last' = Operated("time", "none", <<>>, <<>>, None, None, 0)
    /\ UNCHANGED <<fetcher_vars, cache_enabled, max_size, counter_vars, recency, search,
                   remaining, teams_vars, formatted_vars, client_vars>>

\* cache_cleanup_task: the sleep is over, cleanup_expired() runs and the task
\* sleeps again.  A cancelled task is thrown CancelledError at its await and
\* runs nothing more.
ServerSweep ==
    /\ server.phase \in {"serving", "closing"}
    /\ ~server.cancelled
    /\ server.timer = 0
    /\ LET kept == SelectSeq(cache, LAMBDA e : ~IsExpired(e))
       IN  /\ cache' = kept
           /\ recency' = Surviving(recency, kept)
           /\ last' = Operated("cleanup_expired", "none", <<>>, <<>>, None, None,
                               Len(cache) - Len(kept))
    /\ server' = [server EXCEPT !.timer = SweepInterval, !.since = 0]
    /\ UNCHANGED <<fetcher_vars, cache_enabled, max_size, counter_vars, search,
                   remaining, teams_vars, formatted_vars, client_vars>>

\* the task left running when the server fails
CancelsUnlessError(cause) == cause # "error"

\* finally: cleanup_task.cancel() runs however the try statement was left
Cancels(cause) == TRUE

\* The ways the serving loop ends: self.server.run() returns, KeyboardInterrupt,
\* another exception; the HTTP server's shutdown event.
ShutdownCauses == {"return", "interrupt", "error", "shutdown_event"}

\* The finally clause up to its first suspension: cleanup_task.cancel(), then
\* cleanup() -> close(), which awaits aclose() if there is a client.
ServerStop(cause) ==
    /\ server.phase = "serving"
    /\ server' = [server EXCEPT !.phase = IF client # NoClient THEN "closing" ELSE "stopped",
                                !.cause = cause,
                                !.cancelled = Cancels(cause)]
    /\ IF client # NoClient
       THEN closing' = closing \cup {1} /\ closes' = closes + 1
       ELSE UNCHANGED <<closing, closes>>
    /\ UNCHANGED <<fetcher_vars, cache_vars, remaining, teams_vars, formatted_vars, client, created, handed>>

\* aclose() has returned: self.client = None, and run() is over.
ServerStopped ==
    /\ server.phase = "closing"
    /\ server' = [server EXCEPT !.phase = "stopped"]
    /\ client' = NoClient
    /\ closing' = closing \ {1}
    /\ UNCHANGED <<fetcher_vars, cache_vars, remaining, teams_vars, formatted_vars, created, handed, closes>>

ServerNext ==
    \/ ServerRun
    \/ \E i \in FixturesInputs, value \in Values : ServerRequest(i, value)
    \/ ServerElapse
    \/ ServerSweep
    \/ \E cause \in ShutdownCauses : ServerStop(cause)
    \/ ServerStopped

ServerSpec == ServiceInit /\ [][ServerNext]_vars

\* ============================================================ cache claims
\* Under CacheSpec every step is one cache operation, named by last'.op.
KeysInOrder(c) == [i \in 1..Len(c) |-> c[i].key]

\* C13: the number of stored entries never exceeds max_size (>= 1), and a
\* set of a new key into a full cache first removes the least recently used
\* entry, then inserts the new one as the most recently used.
C13_SizeInvariant ==
    /\ [](Len(cache) <= max_size)
    /\ [][ (/\ last'.op = "set"
            /\ cache_enabled
            /\ GenerateKey(last'.prefix, last'.params) \notin Keys(cache)
            /\ Len(cache) = max_size) =>
               /\ Head(cache).key = Head(recency)
               /\ SubSeq(cache', 1, Len(cache') - 1) = Tail(cache)
               /\ Len(cache') = max_size
               /\ Last(cache').key = GenerateKey(last'.prefix, last'.params)
               /\ Last(cache').value = last'.value
               /\ evictions' = evictions + 1 ]_vars

\* C13 witness: a cache of max_size 2 is full again after a set that evicted.
C13_Witness ==
    /\ max_size = 2
    /\ last.op = "set"
    /\ Len(cache) = 2
    /\ evictions = 1

\* C14: a set evicts the stored keys whose last successful get or set is
\* oldest (a get that hits makes its key the most recently used), the
\* eviction counter grows by one for each entry evicted and by nothing else,
\* and the cache keeps its entries in the order of their last use.
C14_LruOrder ==
    [][ /\ KeysInOrder(cache') = recency'
        /\ (last'.op = "get" /\ last'.result # None) =>
               Last(recency') = GenerateKey(last'.prefix, last'.params)
        /\ (last'.op = "set" /\ cache_enabled) =>
               LET key == GenerateKey(last'.prefix, last'.params)
                   others == SelectSeq(recency, LAMBDA k : k # key)
                   gone == (Keys(cache) \ {key}) \ Keys(cache')
               IN  /\ Cardinality(gone) <= Len(others)
                   /\ gone = {others[i] : i \in 1..Cardinality(gone)}
                   /\ evictions' = evictions + Cardinality(gone)
        /\ last'.op # "set" => evictions' = evictions ]_vars

\* C14 witness: max_size = 2; k1 and k2 were set, k1 was read, and the set of
\* k3 evicted k2: k1 and k3 are stored and evictions = 1.
C14_Witness ==
    /\ max_size = 2
    /\ KeysInOrder(cache) = << GenerateKey("teams", <<League39, Season2023>>),
                               GenerateKey("fixtures", <<League39, Season2023>>) >>
    /\ last.op = "set"
    /\ last.prefix = "fixtures"
    /\ hits = 1
    /\ misses = 0
    /\ evictions = 1

\* The instant an entry expires at is behind: now > expires_at.
PastExpiry(e) == ~e.permanent /\ e.left < 0
Stored(c, key) == key \in Keys(c)

\* C15: set(key, value, category) on an enabled cache stores the value under
\* the key; the value stays as stored while the entry does; an entry leaves
\* only by invalidation, eviction or removal after its expiry; and a get of a
\* stored key that is not past its expiry returns exactly that value and
\* counts one hit.
C15_RoundTrip ==
    [][ /\ (last'.op = "set" /\ cache_enabled) =>
               LET key == GenerateKey(last'.prefix, last'.params)
               IN  /\ Stored(cache', key)
                   /\ Lookup(cache', key).value = last'.value
                   /\ ~PastExpiry(Lookup(cache', key))
        /\ \A key \in Keys(cache) :
               IF Stored(cache', key)
               THEN \/ Lookup(cache', key).value = Lookup(cache, key).value
                    \/ last'.op = "set" /\ key = GenerateKey(last'.prefix, last'.params)
               ELSE \/ last'.op = "invalidate" /\ Matches(key, last'.pattern)
                    \/ last'.op = "set" /\ evictions' > evictions
                    \/ last'.op \in {"get", "cleanup_expired"}
                           /\ PastExpiry(Lookup(cache, key))
        /\ (last'.op = "get" /\ cache_enabled) =>
               LET key == GenerateKey(last'.prefix, last'.params)
               IN  (Stored(cache, key) /\ ~PastExpiry(Lookup(cache, key))) =>
                       /\ last'.result = Lookup(cache, key).value
                       /\ hits' = hits + 1
                       /\ misses' = misses ]_vars

\* C15 witness: a value set earlier was read back at the very instant its
\* time to live ran out, and the read counted as the one hit.
C15_Witness ==
    /\ last.op = "get"
    /\ last.result = "v2"
    /\ hits = 1
    /\ misses = 0
    /\ \E i \in 1..Len(cache) : ~cache[i].permanent /\ cache[i].left = 0

\* C16: a get never returns the value of an entry past its expiry: it
\* returns None, removes the entry and counts a miss; and an entry past its
\* expiry stays so until it is removed or set again.
C16_Expiry ==
    [][ /\ (last'.op = "get" /\ cache_enabled) =>
               LET key == GenerateKey(last'.prefix, last'.params)
               IN  /\ (Stored(cache, key) /\ PastExpiry(Lookup(cache, key))) =>
                          /\ last'.result = None
                          /\ ~Stored(cache', key)
                          /\ misses' = misses + 1
                          /\ hits' = hits
                   /\ last'.result # None =>
                          (Stored(cache, key) /\ ~PastExpiry(Lookup(cache, key)))
        /\ \A key \in Keys(cache) :
               (PastExpiry(Lookup(cache, key)) /\ Stored(cache', key)) =>
                   \/ PastExpiry(Lookup(cache', key))
                   \/ last'.op = "set" /\ key = GenerateKey(last'.prefix, last'.params) ]_vars

\* C16 witness: a get found its entry past expiry: it returned None, the
\* entry is gone while another one is still stored, and the miss is counted.
C16_Witness ==
    /\ last.op = "get"
    /\ last.result = None
    /\ misses = 1
    /\ hits = 0
    /\ Len(cache) = 1
    /\ ~Stored(cache, GenerateKey(last.prefix, last.params))
    /\ cache_enabled
    /\ max_size = 2
    /\ evictions = 0
    /\ PastExpiry(cache[1])

\* C17: invalidate(pattern) removes exactly the entries whose key contains
\* the pattern, leaves the other entries as they were and in their order,
\* returns the number removed and touches no counter; invalidate() removes
\* every entry and returns the size the cache had.
C17_InvalidateFrame ==
    [][ (last'.op = "invalidate" /\ cache_enabled) =>
            /\ last'.pattern # NonePattern =>
                   cache' = SelectSeq(cache, LAMBDA e : ~Contains(e.key, last'.pattern))
            /\ last'.pattern = NonePattern =>
                   (cache' = <<>> /\ last'.count = Len(cache))
            /\ last'.count = Len(cache) - Len(cache')
            /\ UNCHANGED counter_vars ]_vars

\* C17 witness: invalidating by a part of the digest removed one of two
\* entries and kept the other.
C17_Witness ==
    /\ last.op = "invalidate"
    /\ last.pattern = <<"d2">>
    /\ last.count = 1
    /\ Len(cache) = 1
    /\ hits + misses > 0

\* C18: cleanup_expired() removes every entry that is past its expiry and no
\* other, returns the number removed, and leaves the remaining entries, their
\* order and the three counters as they were.
C18_CleanupExpired ==
    [][ (last'.op = "cleanup_expired" /\ cache_enabled) =>
            /\ cache' = SelectSeq(cache, LAMBDA e : ~PastExpiry(e))
            /\ last'.count = Cardinality({i \in 1..Len(cache) : PastExpiry(cache[i])})
            /\ UNCHANGED counter_vars ]_vars

\* C18 witness: a sweep removed one entry and kept another that was at the
\* very instant of its expiry.
C18_Witness ==
    /\ last.op = "cleanup_expired"
    /\ last.count = 1
    /\ Len(cache) = 1
    /\ ~cache[1].permanent
    /\ cache[1].left = 0
    /\ hits + misses > 0

\* C19: a get right after a set with the same prefix and the same pairs, in
\* whatever order they were given, reads the value just set and counts a hit;
\* with another prefix or a different pair it looks under another key than
\* the one just written.
SamePairs(p, q) ==
    Len(p) = Len(q) /\ {p[i] : i \in 1..Len(p)} = {q[i] : i \in 1..Len(q)}

C19_KeyOrderIndependence ==
    [][ (last.op = "set" /\ last'.op = "get" /\ cache_enabled) =>
            IF last.prefix = last'.prefix /\ SamePairs(last.params, last'.params)
            THEN /\ last'.result = last.value
                 /\ hits' = hits + 1
                 /\ Last(cache').key = Last(cache).key
            ELSE /\ Last(cache).key # GenerateKey(last'.prefix, last'.params)
                 /\ last'.result # None => Last(cache') # Last(cache) ]_vars

\* C19 witness: a get given (season, league) hit the one entry stored, and
\* the two orders of the same pairs differ as sequences.
C19_Witness ==
    /\ last.op = "get"
    /\ last.params = <<Season2023, League39>>
    /\ last.result # None
    /\ Len(cache) = 1
    /\ hits = 1
    /\ misses = 0
    /\ evictions = 0

\* =========================================================== search claims
\* Under SearchSpec a step that changes `search` is a step of search_fixtures.

\* C20 (as claimed): a search_fixtures call with a non-empty live parameter
\* leaves the cache contents, their order and the counters as they were, and
\* every such call makes its upstream request.
C20_LiveBypassesCache ==
    [][ (search'.live # "" /\ search' # search) =>
            /\ UNCHANGED <<cache, counter_vars, last, recency>>
            /\ search'.pc = "returned" => search'.upstream = 1 ]_vars

\* C20 (amended): a search_fixtures call with a non-empty live parameter
\* leaves the cache contents, their order and the counters as they were;
\* when its parameters pass validation it goes straight to the upstream
\* request and makes exactly one, and when they do not it returns the
\* validation error without any.
C20_LiveBypassValidated ==
    [][ (search'.live # "" /\ search' # search) =>
            /\ UNCHANGED <<cache, counter_vars, last, recency>>
            /\ search'.valid => search'.upstream = 1
            /\ (search'.valid /\ search.pc # "fetching") => search'.pc = "fetching"
            /\ ~search'.valid =>
                   /\ search'.upstream = 0
                   /\ search'.pc = "returned"
                   /\ search'.result = "error" ]_vars

\* C20 witness: a live call has fetched fixtures from the upstream and
\* returned them while the cache holds an entry and has counted a lookup.
C20_Witness ==
    /\ search.live = "all"
    /\ search.pc = "returned"
    /\ search.result = "fetched"
    /\ search.upstream = 1
    /\ cache_enabled
    /\ Len(cache) = 1
    /\ hits = 1

\* C21: the result of a non-live fixtures query that returned fixtures is
\* stored under the permanent category exactly when every returned fixture
\* has a status among FT, AET, PEN, PST, CANC, ABD, AWD, WO; with any other
\* status among them it is stored for the upcoming-fixtures time to live.
C21_CategoryByContent ==
    [][ (/\ search' # search
         /\ search'.result = "fetched"
         /\ search'.live = ""
         /\ search'.statuses # <<>>
         /\ cache_enabled) =>
            LET stored == Last(cache')
                codes == search'.statuses
            IN  /\ stored.key = GenerateKey("fixtures", search'.params)
                /\ stored.permanent <=>
                       (\A i \in 1..Len(codes) :
                            codes[i] \in {"FT", "AET", "PEN", "PST", "CANC", "ABD", "AWD", "WO"})
                /\ ~stored.permanent => stored.left = CacheTtlFixturesUpcoming ]_vars

\* C21 witness: a batch with one finished and one not started fixture was
\* stored, and it expires.
C21_Witness ==
    /\ search.result = "fetched"
    /\ search.live = ""
    /\ search.statuses = <<"FT", "NS">>
    /\ cache_enabled
    /\ Len(cache) = 1
    /\ ~cache[1].permanent
    /\ cache[1].left = CacheTtlFixturesUpcoming

TeamsKey == GenerateKey("teams", last'.params)
TeamsCallStarts == hits' + misses' = hits + misses + 1
Answered(c) == teams[c].pc = "done" /\ teams[c].result \in Values

\* C22: a search_teams call whose key is stored and not past its expiry
\* makes no upstream request and no rate-limiter call, and returns the stored
\* result, which stays stored; and the stored result is the one returned by
\* the call that fetched and stored it.
C22_HitAvoidsUpstream ==
    /\ [][ (/\ TeamsCallStarts
            /\ Stored(cache, TeamsKey)
            /\ ~PastExpiry(Lookup(cache, TeamsKey))) =>
               /\ requested' = requested
               /\ acquired' = acquired
               /\ \E c \in Callers :
                      /\ teams[c].pc # "fetching"
                      /\ teams'[c] = TeamsCall("done", last'.params,
                                               Lookup(cache, TeamsKey).value)
                      /\ \A d \in Callers \ {c} : teams'[d] = teams[d]
               /\ Stored(cache', TeamsKey)
               /\ Lookup(cache', TeamsKey).value = Lookup(cache, TeamsKey).value ]_vars
    /\ [][ \A c \in Callers :
              (/\ teams[c].pc = "fetching"
               /\ teams'[c].pc = "done"
               /\ teams'[c].result \in Values
               /\ cache_enabled) =>
                  /\ Last(cache').key = GenerateKey("teams", teams[c].params)
                  /\ Last(cache').value = teams'[c].result
                  /\ Last(cache').left = CacheTtlTeams ]_vars

\* C22 witness: one upstream request was made, its result stored, and a later
\* call of the same query was answered from the cache with that result.
C22_Witness ==
    /\ requested = 1
    /\ acquired = 1
    /\ hits = 1
    /\ misses = 1
    /\ last.op = "get"
    /\ last.result = "v1"
    /\ Answered(1)
    /\ Answered(2)
    /\ teams[1] = teams[2]
    /\ teams[2].result = "v1"

\* C23 (as claimed): two callers that miss on the same query do not both
\* have an upstream request in flight.
C23_SingleRequestForTwoMisses ==
    \A c, d \in Callers :
        (/\ c # d
         /\ cache_enabled
         /\ teams[c].pc = "fetching"
         /\ teams[d].pc = "fetching"
         /\ teams[c].params = teams[d].params) => requested < 2

\* C23 (amended): every search_teams call that misses the cache makes its own
\* upstream request and its own rate-limiter call, whether or not another
\* caller's request for the same query is in flight.
C23_EachMissFetches ==
    [][ (TeamsCallStarts /\ misses' = misses + 1) =>
            /\ requested' = requested + 1
            /\ acquired' = acquired + 1
            /\ \E c \in Callers :
                   /\ teams[c].pc # "fetching"
                   /\ teams'[c] = TeamsCall("fetching", last'.params, "none") ]_vars

\* C23 witness: two requests for the same query are in flight at once, each
\* with its own rate-limiter call.
C23_Witness ==
    /\ cache_enabled
    /\ teams[1].pc = "fetching"
    /\ teams[2].pc = "fetching"
    /\ teams[1].params = teams[2].params
    /\ requested = 2
    /\ acquired = 2
    /\ misses = 2

\* C24: the write of a search_teams result whose key is already stored
\* evicts nothing and leaves the number of entries and the stored keys as
\* they were, the key's one entry now holding the writer's result; no key is
\* ever stored twice, and the size bound holds throughout.
C24_SecondWriteReplaces ==
    /\ [](/\ Len(cache) <= max_size
          /\ \A i, j \in 1..Len(cache) : cache[i].key = cache[j].key => i = j)
    /\ [][ \A c \in Callers :
              (/\ teams[c].pc = "fetching"
               /\ teams'[c].pc = "done"
               /\ teams'[c].result \in Values
               /\ cache_enabled
               /\ Stored(cache, GenerateKey("teams", teams[c].params))) =>
                  /\ evictions' = evictions
                  /\ Len(cache') = Len(cache)
                  /\ Keys(cache') = Keys(cache)
                  /\ Lookup(cache', GenerateKey("teams", teams[c].params)).value
                         = teams'[c].result ]_vars

\* C24 witness: both callers missed on the same query, both were answered,
\* differently, and the one entry holds the second answer.
C24_Witness ==
    /\ cache_enabled
    /\ misses = 2
    /\ hits = 0
    /\ requested = 2
    /\ teams[1] = TeamsCall("done", <<League39, Season2023>>, "v1")
    /\ teams[2] = TeamsCall("done", <<League39, Season2023>>, "v2")
    /\ last.op = "set"
    /\ last.value = "v2"
    /\ Len(cache) = 1
    /\ cache[1].value = "v2"
    /\ evictions = 0

\* C28 (as claimed): no search_teams call ends with an exception instead of
\* a returned dict.
C28_NoFailureEscapes == \A c \in Callers : teams[c].result # "raised"

\* =========================================================== get_remaining
\* the number of acquire() calls that have returned
RECURSIVE SumTo(_, _)
SumTo(f, n) == IF n = 0 THEN 0 ELSE f[n] + SumTo(f, n - 1)
Returned == SumTo(recorded, NumTasks)

\* C25: when the K acquire() calls that have returned were all made within
\* the last 60 seconds, with K below both ceilings, get_remaining() returns
\* calls_per_minute - K and calls_per_day - K; what it returns is never
\* negative.
C25_RemainingAccounting ==
    /\ [](remaining # NoRemaining => remaining.minute >= 0 /\ remaining.day >= 0)
    /\ [][ (/\ remaining' # remaining
            /\ Len(day_calls) = Returned
            /\ \A i \in 1..Len(day_calls) : day_calls[i] < MinuteWindow
            /\ Returned < calls_per_minute
            /\ Returned < calls_per_day) =>
               remaining' = [minute |-> calls_per_minute - Returned,
                             day |-> calls_per_day - Returned] ]_vars

\* C25 witness: one call has returned under ceilings of two, and the
\* remaining capacity was read as one and one.
C25_Witness ==
    /\ Returned = 1
    /\ calls_per_minute = 2
    /\ calls_per_day = 2
    /\ day_calls = <<0>>
    /\ remaining = [minute |-> 1, day |-> 1]

\* C26: get_remaining() can run in every state, whoever holds the lock, and
\* a call of it leaves the recorded instants of both windows, the lock and
\* every task where they are.
C26_RemainingReservesNothing ==
    /\ [](ENABLED GetRemaining)
    /\ [][ remaining' # remaining =>
               /\ minute_calls' = minute_calls
               /\ day_calls' = day_calls
               /\ lock_owner' = lock_owner
               /\ lock_waiters' = lock_waiters
               /\ pc' = pc
               /\ timer' = timer ]_vars

\* C26 witness: with a ceiling of one call per minute, a task sleeps for
\* budget holding the lock; the minute has passed and the capacity was read
\* as free again before the task woke, the old instant still recorded.
C26_Witness ==
    /\ calls_per_minute = 1
    /\ calls_per_day = 2
    /\ \E t \in Tasks : pc[t] = "minute_sleep" /\ lock_owner = t
    /\ minute_calls = <<MinuteWindow>>
    /\ remaining = [minute |-> 1, day |-> 1]

\* ============================================================= HTTP client
\* C29: as long as close() has not been called, whatever the order in which
\* the tasks call _get_client(), at most one client is constructed, exactly
\* one once a task has called, and every caller has received that client.
C29_ClientCreatedOnce ==
    closes = 0 =>
        /\ created <= 1
        /\ \A t \in Tasks : handed[t] # NoClient => created = 1 /\ handed[t] = client
        /\ created = 1 => client = 1

\* C29 witness: every task has called _get_client(), none has closed, and
\* all hold the one client.
C29_Witness ==
    /\ closes = 0
    /\ created = 1
    /\ \A t \in Tasks : handed[t] = 1
    /\ client = 1

\* ================================================================== server
\* Under ServerSpec a step that makes cleanup_expired the latest cache
\* operation is a sweep of the cleanup task.
Sweeps == last'.op = "cleanup_expired" /\ last.op # "cleanup_expired"

\* C30: while the server serves, the cleanup task sweeps exactly when 300
\* seconds have passed since it started or last swept; however the serving
\* loop ends, the task is cancelled by the time close() begins on the API
\* client, and no sweep runs from then on.
C30_SweepsUntilShutdown ==
    /\ [](server.phase \in {"closing", "stopped"} => server.cancelled)
    /\ [](server.phase = "serving" =>
              ~server.cancelled /\ server.since + server.timer = 300)
    /\ [][ Sweeps => /\ server.phase = "serving"
                     /\ ~server.cancelled
                     /\ server.since = 300
                     /\ server'.since = 0 ]_vars
    /\ [][ (closes' # closes \/ (client' # client /\ client' = NoClient)) =>
                server'.cancelled ]_vars

\* C30 witness: the cleanup task swept an expired entry away, then the
\* server failed; the task was cancelled and the client closed.
C30_Witness ==
    /\ server.phase = "stopped"
    /\ server.cause = "error"
    /\ server.cancelled
    /\ closes = 1
    /\ created = 1
    /\ client = NoClient
    /\ last.op = "cleanup_expired"
    /\ last.count = 1
    /\ cache = <<>>

\* ===================================================== cache, further claims
\* The key of the latest cache operation.
LastKey == GenerateKey(last'.prefix, last'.params)

\* C31: a set of a key that is already stored, on an enabled cache, leaves
\* the number of entries and the stored keys as they were and evicts nothing,
\* even with the cache at max_size; the other entries keep their order, and
\* the key's entry becomes the most recently used one, with the new value and
\* a fresh expiry of its category.
C31_Overwrite ==
    [][ (last'.op = "set" /\ cache_enabled /\ Stored(cache, LastKey)) =>
            /\ Len(cache') = Len(cache)
            /\ Keys(cache') = Keys(cache)
            /\ evictions' = evictions
            /\ SubSeq(cache', 1, Len(cache') - 1) =
                   SelectSeq(cache, LAMBDA e : e.key # LastKey)
            /\ Last(cache').key = LastKey
            /\ Last(cache').value = last'.value
            /\ Last(cache').permanent <=> last'.cache_type = "fixtures_completed"
            /\ ~Last(cache').permanent => Last(cache').left = 3600
            /\ Last(recency') = LastKey ]_vars

\* C31 witness: a cache of max_size 2 holds two entries; the older one has
\* reached its deadline, the other was written again after that with another
\* category, and nothing was evicted.
C31_Witness ==
    /\ cache_enabled
    /\ max_size = 2
    /\ Len(cache) = 2
    /\ evictions = 0
    /\ last.op = "set"
    /\ last.cache_type = "fixtures_completed"
    /\ cache[1].left = 0
    /\ ~cache[1].permanent
    /\ cache[2].permanent
    /\ cache[2].key = GenerateKey(last.prefix, last.params)
    /\ hits = 2

\* C32: on an enabled cache every get adds one to exactly one of hits and
\* misses: to hits when the key is stored and not past its expiry, to misses
\* otherwise (a stored entry past its expiry included); no other operation
\* changes either counter.
C32_HitMissCounters ==
    [][ /\ (last'.op = "get" /\ cache_enabled) =>
               /\ hits' + misses' = hits + misses + 1
               /\ hits' \in {hits, hits + 1}
               /\ hits' = hits + 1 <=>
                      (Stored(cache, LastKey) /\ ~PastExpiry(Lookup(cache, LastKey)))
               /\ hits' = hits + 1 <=> last'.result # None
        /\ (last'.op # "get" \/ ~cache_enabled) =>
               hits' = hits /\ misses' = misses ]_vars

\* C32 witness: a stored entry was read (hit), time passed beyond its
\* expiry, and it was read again: a miss, and the entry is gone.
C32_Witness ==
    /\ cache_enabled
    /\ hits = 1
    /\ misses = 1
    /\ last.op = "get"
    /\ last.result = None
    /\ cache = <<>>
    /\ evictions = 0

\* C33: an entry stored under fixtures_completed (time to live 0) is
\* permanent; a permanent entry stays stored, unchanged, through every get,
\* cleanup_expired and passage of time, and leaves or changes only by a set
\* that evicts it or overwrites its key, or by an invalidate that matches it.
C33_PermanentEntries ==
    [][ /\ (last'.op = "set" /\ cache_enabled /\ last'.cache_type = "fixtures_completed") =>
               Lookup(cache', LastKey).permanent
        /\ \A i \in 1..Len(cache) :
               cache[i].permanent =>
                   \/ \E j \in 1..Len(cache') : cache'[j] = cache[i]
                   \/ last'.op = "set" /\ (evictions' > evictions \/ cache[i].key = LastKey)
                   \/ last'.op = "invalidate" /\ Matches(cache[i].key, last'.pattern)
        /\ (/\ last'.op = "get"
            /\ cache_enabled
            /\ Stored(cache, LastKey)
            /\ Lookup(cache, LastKey).permanent) =>
               last'.result = Lookup(cache, LastKey).value ]_vars

\* C33 witness: more than a day after they were stored, a sweep removed an
\* expired entry and left the permanent one.
C33_Witness ==
    /\ cache_enabled
    /\ last.op = "cleanup_expired"
    /\ last.count = 1
    /\ Len(cache) = 1
    /\ cache[1].permanent
    /\ evictions = 0

\* C38: the cache never holds two fixtures entries for the same parameters;
\* a set_fixtures over a stored entry of the other category replaces it, the
\* category of the write deciding alone whether the entry is permanent.
FixturesEntries(c, digest) ==
    {i \in 1..Len(c) : c[i].key[1] # "teams" /\ c[i].key[3] = digest}

C38_OneFixturesEntry ==
    /\ [](\A i \in FixturesInputs :
              Cardinality(FixturesEntries(cache, Md5(Dumps(i.params)))) <= 1)
    /\ [][ (/\ last'.op = "set"
            /\ last'.prefix = "fixtures"
            /\ cache_enabled
            /\ Stored(cache, LastKey)) =>
               /\ Cardinality(FixturesEntries(cache', Md5(Dumps(last'.params)))) = 1
               /\ Lookup(cache', LastKey).value = last'.value
               /\ Lookup(cache', LastKey).permanent <=>
                      last'.cache_type = "fixtures_completed" ]_vars

\* C38 witness: the one fixtures entry was written as completed, read, and
\* written again as upcoming: it now expires.
C38_Witness ==
    /\ cache_enabled
    /\ last.op = "set"
    /\ last.prefix = "fixtures"
    /\ last.cache_type = "fixtures_upcoming"
    /\ Len(cache) = 1
    /\ ~cache[1].permanent
    /\ cache[1].left = 3600
    /\ hits = 1
    /\ misses = 0
    /\ evictions = 0

\* ================================================= search_fixtures, further
\* C37: a non-live search_fixtures call whose upstream answer holds no
\* fixture returns it without any cache operation, so that no entry is ever
\* stored for an empty result; and a valid non-live call whose key is not
\* stored makes an upstream request.
C37_EmptyResultNotStored ==
    /\ [](\A i \in 1..Len(cache) : cache[i].value # "empty")
    /\ [][ (/\ search' # search
            /\ search.pc = "fetching"
            /\ search'.result = "fetched"
            /\ search'.statuses = <<>>) =>
               UNCHANGED <<cache, counter_vars, last, recency>> ]_vars
    /\ [][ (/\ search' # search
            /\ search.pc # "fetching"
            /\ search'.valid
            /\ search'.live = ""
            /\ ~Stored(cache, GenerateKey("fixtures", search'.params))) =>
               /\ search'.pc = "fetching"
               /\ search'.upstream = 1 ]_vars

\* C37 witness: the first call of an enabled cache missed, the upstream
\* answered without fixtures, and the call returned with nothing stored.
C37_Witness ==
    /\ cache_enabled
    /\ search.live = ""
    /\ search.pc = "returned"
    /\ search.result = "fetched"
    /\ search.statuses = <<>>
    /\ misses = 1
    /\ hits = 0
    /\ cache = <<>>
    /\ last.op = "get"

\* C39: no search_fixtures call builds params with an automatically added
\* next: a call that passes validation with a team has a season, and a call
\* with a team and no season returns the validation error without a request.
C39_AutoNextNeverAdded ==
    /\ [](\A i \in 1..Len(search.params) : search.params[i][1] # "next")
    /\ []((search.valid /\ search.query.team # None) => search.query.season # None)
    /\ [][ (/\ search' # search
            /\ search.pc # "fetching"
            /\ search'.query.team # None
            /\ search'.query.season = None) =>
               /\ search'.pc = "returned"
               /\ search'.result = "error"
               /\ search'.upstream = 0
               /\ search'.params = <<>> ]_vars

\* C39 witness: a call with a team and nothing else was rejected.
C39_Witness ==
    /\ search.query = Query(None, None, "", 0, "", "33")
    /\ search.pc = "returned"
    /\ search.result = "error"
    /\ ~search.valid
    /\ search.upstream = 0

\* A live entry under the key of a formatted call's arguments
FormattedStored(i) ==
    \E n \in 1..Len(cache) : cache[n].key = FormattedKey(i) /\ ~IsExpired(cache[n])

\* C36: failures are never cached.  No entry ever holds an error dict: what
\* is stored is a result built from upstream data.  A statistics or standings
\* call that ends in an error dict after contacting the upstream (exception
\* handled, or empty payload) or that an exception leaves, writes nothing:
\* the entries, the counters, the latest cache operation and the order of use
\* are as they were.  And the caller's next call with the same arguments,
\* unless another caller's successful call has stored the result meanwhile,
\* misses the cache and contacts the upstream again.
C36_FailuresNeverCached ==
    /\ [](\A n \in 1..Len(cache) :
             \/ cache[n].value = "v1"
             \/ cache[n].value = "blank" /\ cache[n].key[1] = "statistics")
    /\ [][ \A c \in Callers :
             /\ (/\ formatted[c].pc = "fetching"
                 /\ formatted'[c].pc = "done"
                 /\ formatted'[c].result \in FailureResults \cup {"raised"}) =>
                    UNCHANGED <<cache, hits, misses, evictions, last, recency>>
             /\ (/\ formatted[c].pc = "done"
                 /\ formatted[c].result \in FailureResults
                 /\ formatted'[c] # formatted[c]
                 /\ formatted'[c].input = formatted[c].input
                 /\ ~FormattedStored(formatted[c].input)) =>
                    /\ formatted'[c].pc = "fetching"
                    /\ formatted'[c].again
                    /\ fetched' = fetched + 1
                    /\ cache_enabled => misses' = misses + 1 /\ hits' = hits ]_vars

\* C36 witness: a caller whose standings call ended in an error dict called
\* again with the same arguments, missed again and is waiting for the
\* upstream a second time, the cache still empty.
C36_Witness ==
    /\ cache_enabled
    /\ formatted[1].again
    /\ formatted[1].pc = "fetching"
    /\ formatted[1].input.operation = "standings"
    /\ formatted[2].pc = "idle"
    /\ fetched = 2
    /\ misses = 2
    /\ cache = <<>>

\* C34: a 429 answer makes make_request sleep the seconds of the Retry-After
\* header, 60 without the header, and nothing more: one sleep is recorded,
\* of that length and for that reason.  When that sleep is over and the loop
\* has an attempt left, the next GET is issued at once, without a backoff
\* sleep.  A request answered 429 and then 200 with a valid body returns the
\* parsed response from its second attempt.
C34_RetryAfterOnly ==
    /\ [][ \A t \in Tasks :
             /\ (/\ pc[t] = "awaiting"
                 /\ pc'[t] # "awaiting"
                 /\ response'[t].status = 429) =>
                    /\ pc'[t] = "retry_sleep"
                    /\ timer'[t] = (IF response'[t].retry_after = 0
                                    THEN 60 ELSE response'[t].retry_after)
                    /\ sleeps'[t] = Append(sleeps[t], [secs |-> timer'[t],
                                                       why |-> "rate_limited"])
             /\ (/\ pc[t] = "retry_sleep"
                 /\ pc'[t] # "retry_sleep"
                 /\ response[t].status = 429
                 /\ attempt[t] + 1 < max_retries) =>
                    /\ pc'[t] = "awaiting"
                    /\ gets'[t] = gets[t] + 1
                    /\ attempt'[t] = attempt[t] + 1
                    /\ sleeps'[t] = sleeps[t] ]_vars
    /\ [](\A t \in Tasks :
             (/\ pc[t] = "done"
              /\ Made(t)
              /\ gets[t] = 2
              /\ Len(sleeps[t]) = 1
              /\ sleeps[t][1].why = "rate_limited"
              /\ response[t] = Http(200, "ok", 0)) =>
                 outcome[t] = Raised("ok", 200, "ok", 1))

\* C34 witness: a request answered 429 with Retry-After: 1 slept one second,
\* asked again, was answered 200 and returned.
C34_Witness ==
    \E t \in Tasks :
        /\ pc[t] = "done"
        /\ Made(t)
        /\ gets[t] = 2
        /\ sleeps[t] = << [secs |-> AdvisedRetryAfter, why |-> "rate_limited"] >>
        /\ outcome[t].result = "ok"

\* C35 (as claimed): make_request always terminates: every call ends, by
\* returning a parsed response or by raising, after at most max_retries GETs,
\* whatever the upstream answers.
C35_RequestTerminates ==
    /\ [](\A t \in Tasks : gets[t] <= max_retries)
    /\ \A t \in Tasks :
           (Made(t) /\ pc[t] # "done") ~>
               (pc[t] = "done" /\ outcome[t] # NoOutcome /\ gets[t] <= max_retries)

\* What holds of every finite run: the GETs never exceed max_retries, and a
\* call that has ended has returned or raised.
C35_AttemptsBounded ==
    \A t \in Tasks :
        /\ gets[t] <= max_retries
        /\ (Made(t) /\ pc[t] = "done") => outcome[t] # NoOutcome

\* Once acquire() has returned, the call does end: the loop itself is bounded.
C35_LoopTerminates ==
    \A t \in Tasks :
        (Made(t) /\ pc[t] \in {"awaiting", "retry_sleep"}) ~>
            (pc[t] = "done" /\ outcome[t] # NoOutcome)

\* a list of ages is in time order when no instant is younger than a later one
OldestFirst(calls) ==
    \A i, j \in 1..Len(calls) : i < j => calls[i] >= calls[j]

IsSuffix(short, long) ==
    /\ Len(short) <= Len(long)
    /\ short = SubSeq(long, Len(long) - Len(short) + 1, Len(long))

\* C40: in every reachable state minute_calls is a suffix of day_calls, so
\* every instant of the minute list is in the day list; both lists are in
\* time order, and the first element of each is its oldest instant.
C40_MinuteSuffixOfDay ==
    /\ IsSuffix(minute_calls, day_calls)
    /\ OldestFirst(minute_calls)
    /\ OldestFirst(day_calls)
    /\ \A i \in 1..Len(minute_calls) : minute_calls[1] >= minute_calls[i]
    /\ \A i \in 1..Len(day_calls) : day_calls[1] >= day_calls[i]

\* C40 witness: two calls more than a minute apart: the day list holds both,
\* the older first, and the minute list only the later one.
C40_Witness ==
    /\ Len(day_calls) = 2
    /\ minute_calls = <<0>>
    /\ day_calls[1] >= MinuteWindow
    /\ day_calls[1] < DayWindow
    /\ day_calls[2] = 0

====
